---- MODULE Spec2Model ----
(***************************************************************************)
(* Model of the price-update action of app/routes/app._index.jsx: the form *)
(* validation, the per-product async pipeline started by productData.map,  *)
(* the two catalog-update calls of every product, Promise.all and the      *)
(* outcome object the action returns.                                      *)
(*                                                                         *)
(* Numbers.  JavaScript numbers are modelled exactly as scaled integers:   *)
(*   - a value read by parseFloat is held in tenths (the input strings of  *)
(*     the model carry at most one fractional digit, no exponent);         *)
(*   - a karat multiplier is held in 200ths (1, 0.925, 0.76, 0.6, 0.385    *)
(*     are 200, 185, 152, 120, 77), a discount factor in 100ths;           *)
(*   - an amount of money is held in 1/20000 of the currency unit, which   *)
(*     makes price * multiplier * weight and perUnit * weight * factor     *)
(*     exact; toFixed(2) rounds such an amount to cents.                   *)
(* A number is a record: NaN, Infinity(1), Infinity(-1) or Num(n) for the  *)
(* finite number held by the integer n; Mul, Add and Times are the IEEE    *)
(* product, sum and product by a positive constant of such records.  The   *)
(* finite numbers of the model stay below 2^31 in these units, so toFixed  *)
(* never reaches the exponent notation it uses from 1e21 on.               *)
(***************************************************************************)
EXTENDS Integers, Sequences, FiniteSets, TLC

\* ------------------------------------------------------------------ strings

NULL == "<null>"

Upper == "ABCDEFGHIJKLMNOPQRSTUVWXYZ"
Lower == "abcdefghijklmnopqrstuvwxyz"
Digits == "0123456789"

\* The character of s at position i, "" outside s.
Ch(s, i) == IF i >= 1 /\ i <= Len(s) THEN SubSeq(s, i, i) ELSE ""

\* The part of s from position i on.
From(s, i) == IF i > Len(s) THEN "" ELSE SubSeq(s, i, Len(s))

\* Position of the one-character string c in s, 0 when absent.
IndexOf(s, c) ==
  IF \E i \in 1..Len(s) : SubSeq(s, i, i) = c
    THEN CHOOSE i \in 1..Len(s) :
           SubSeq(s, i, i) = c /\ \A j \in 1..(i - 1) : SubSeq(s, j, j) # c
    ELSE 0

IsDigit(c) == IndexOf(Digits, c) > 0

\* The decimal digit i as a character.
digit(i) == SubSeq(Digits, i + 1, i + 1)

DigitVal(c) == IndexOf(Digits, c) - 1

IsSpace(c) == c = " "

\* String.prototype.toLowerCase
RECURSIVE toLowerCase(_)
toLowerCase(s) ==
  IF Len(s) = 0 THEN s
  ELSE LET c == SubSeq(s, 1, 1)
           k == IndexOf(Upper, c)
       IN (IF k > 0 THEN SubSeq(Lower, k, k) ELSE c) \o toLowerCase(Tail(s))

\* String.prototype.includes
includes(s, k) ==
  \/ Len(k) = 0
  \/ \E i \in 1..(Len(s) - Len(k) + 1) : SubSeq(s, i, i + Len(k) - 1) = k

RECURSIVE trimStart(_)
trimStart(s) ==
  IF Len(s) > 0 /\ IsSpace(SubSeq(s, 1, 1)) THEN trimStart(Tail(s)) ELSE s

RECURSIVE trimEnd(_)
trimEnd(s) ==
  IF Len(s) > 0 /\ IsSpace(SubSeq(s, Len(s), Len(s)))
    THEN trimEnd(SubSeq(s, 1, Len(s) - 1)) ELSE s

\* String.prototype.trim
trim(s) == trimEnd(trimStart(s))

\* Array.prototype.join over a sequence of strings
RECURSIVE join(_, _)
join(xs, sep) ==
  IF Len(xs) = 0 THEN ""
  ELSE IF Len(xs) = 1 THEN xs[1]
  ELSE xs[1] \o sep \o join(Tail(xs), sep)

\* ------------------------------------------------------------------ numbers

NaN == [nan |-> TRUE, inf |-> 0, v |-> 0]

\* The finite number held by the integer n.
Num(n) == [nan |-> FALSE, inf |-> 0, v |-> n]

\* Infinity (s = 1) and -Infinity (s = -1).
Infinity(s) == [nan |-> FALSE, inf |-> s, v |-> 0]

\* The sign of a number that is not NaN: -1, 0 or 1.
SignOf(x) == IF x.inf # 0 THEN x.inf ELSE IF x.v > 0 THEN 1 ELSE IF x.v < 0 THEN 0 - 1 ELSE 0

\* x > 0 and x <= 0 (both false of NaN).
Positive(x) == ~x.nan /\ SignOf(x) > 0

NotPositive(x) == ~x.nan /\ SignOf(x) <= 0

\* a * b: NaN when an operand is, or when one is infinite and the other 0.
Mul(a, b) ==
  IF a.nan \/ b.nan THEN NaN
  ELSE IF a.inf = 0 /\ b.inf = 0 THEN Num(a.v * b.v)
  ELSE IF SignOf(a) * SignOf(b) = 0 THEN NaN
  ELSE Infinity(SignOf(a) * SignOf(b))

\* a + b: NaN when an operand is, or for Infinity + -Infinity.
Add(a, b) ==
  IF a.nan \/ b.nan THEN NaN
  ELSE IF a.inf = 0 /\ b.inf = 0 THEN Num(a.v + b.v)
  ELSE IF a.inf # 0 /\ b.inf # 0 /\ a.inf # b.inf THEN NaN
  ELSE Infinity(IF a.inf # 0 THEN a.inf ELSE b.inf)

\* a * c for a finite constant c > 0 (a change of unit, or a multiplier).
Times(a, c) == IF a.nan \/ a.inf # 0 THEN a ELSE Num(a.v * c)

\* The length of the longest prefix of s made of digits.
RECURSIVE DigitRun(_)
DigitRun(s) ==
  IF Len(s) > 0 /\ IsDigit(SubSeq(s, 1, 1)) THEN 1 + DigitRun(Tail(s)) ELSE 0

\* The value of a string of digits.
RECURSIVE DigitsValue(_)
DigitsValue(s) ==
  IF Len(s) = 0 THEN 0
  ELSE 10 * DigitsValue(SubSeq(s, 1, Len(s) - 1)) + DigitVal(SubSeq(s, Len(s), Len(s)))

\* parseFloat: leading white space is skipped, then the longest prefix that
\* is a decimal literal ([+-] digits [. digits] or [+-] . digits) is read and
\* the rest ignored; NaN when there is no such prefix.  A null argument is
\* converted to the string "null", which has no such prefix.  The literal
\* Infinity is read as well.  The result is in tenths.  The steps: the sign,
\* the integer digits, the fraction.
pfValue(neg, ni, ip, nf, fp) ==
  IF ni = 0 /\ nf = 0 THEN NaN
  ELSE Num(IF neg THEN 0 - (10 * ip + fp) ELSE 10 * ip + fp)

pfFraction(neg, ni, ip, frac) ==
  pfValue(neg, ni, ip, DigitRun(frac),
          IF IsDigit(Ch(frac, 1)) THEN DigitVal(Ch(frac, 1)) ELSE 0)

pfDigits(neg, s1, ni) ==
  pfFraction(neg, ni, DigitsValue(SubSeq(s1, 1, ni)),
             IF ni < Len(s1) /\ SubSeq(s1, ni + 1, ni + 1) = "."
               THEN From(s1, ni + 2) ELSE "")

pfSigned(neg, s1) ==
  IF Len(s1) >= 8 /\ SubSeq(s1, 1, 8) = "Infinity"
    THEN Infinity(IF neg THEN 0 - 1 ELSE 1)
    ELSE pfDigits(neg, s1, DigitRun(s1))

pfTrimmed(s0) ==
  IF Len(s0) > 0 /\ SubSeq(s0, 1, 1) \in {"-", "+"}
    THEN pfSigned(SubSeq(s0, 1, 1) = "-", Tail(s0))
    ELSE pfSigned(FALSE, s0)

parseFloat(str) == IF str = NULL THEN NaN ELSE pfTrimmed(trimStart(str))

\* A parse result passed on as it is.
OrNothing(x) == x

\* !x for a number x: NaN and 0 are falsy.
Falsy(x) == x.nan \/ (x.inf = 0 /\ x.v = 0)

\* x || 0 for a number x.
OrZero(x) == IF Falsy(x) THEN Num(0) ELSE x

\* Number.prototype.toFixed(2) of an amount held in 1/20000: the nearest
\* number of cents, the larger magnitude on a tie.
toFixed2(a) ==
  LET mag == IF a < 0 THEN 0 - a ELSE a
      c == (mag + 100) \div 200
  IN IF a < 0 THEN 0 - c ELSE c

\* The decimal digits of a natural number.
RECURSIVE digitsOf(_)
digitsOf(n) == IF n < 10 THEN digit(n) ELSE digitsOf(n \div 10) \o digit(n % 10)

\* The text of c cents with two fractional digits, after the sign.
fixedText(neg, c) ==
  (IF neg THEN "-" ELSE "") \o digitsOf(c \div 100) \o "."
    \o digit((c \div 10) % 10) \o digit(c % 10)

\* Number.prototype.toFixed(2) of an amount in 1/20000: "NaN", "Infinity",
\* "-Infinity", or the sign of the amount and its magnitude rounded to cents.
toFixed(x) ==
  IF x.nan THEN "NaN"
  ELSE IF x.inf # 0 THEN (IF x.inf < 0 THEN "-Infinity" ELSE "Infinity")
  ELSE fixedText(x.v < 0, toFixed2(IF x.v < 0 THEN 0 - x.v ELSE x.v))

\* ------------------------------------------------------------------ JSON.parse

RECURSIVE SkipWs(_, _)
SkipWs(s, i) == IF IsSpace(Ch(s, i)) THEN SkipWs(s, i + 1) ELSE i

JFail == [ok |-> FALSE, kind |-> "", text |-> "", next |-> 0]

\* The position of the first quote of s at or after i, 0 when there is none.
RECURSIVE QuoteAt(_, _)
QuoteAt(s, i) ==
  IF i > Len(s) THEN 0 ELSE IF Ch(s, i) = "\"" THEN i ELSE QuoteAt(s, i + 1)

JStringTo(s, i, j) ==
  IF j = 0 THEN JFail
  ELSE [ok |-> TRUE, kind |-> "string", text |-> SubSeq(s, i + 1, j - 1), next |-> j + 1]

\* A JSON string without escapes, starting at the quote at position i.
JString(s, i) == IF Ch(s, i) # "\"" THEN JFail ELSE JStringTo(s, i, QuoteAt(s, i + 1))

JNumberEnd(s, i, e, ok) ==
  IF ok THEN [ok |-> TRUE, kind |-> "number", text |-> SubSeq(s, i, e - 1), next |-> e]
  ELSE JFail

JNumberFraction(s, i, d, ni, nf) ==
  IF Ch(s, d) = "." THEN JNumberEnd(s, i, d + 1 + nf, ni > 0 /\ nf > 0)
  ELSE JNumberEnd(s, i, d, ni > 0)

JNumberDigits(s, i, b, ni) ==
  JNumberFraction(s, i, b + ni, ni, DigitRun(From(s, b + ni + 1)))

JNumberFrom(s, i, b) == JNumberDigits(s, i, b, DigitRun(From(s, b)))

\* A JSON number: -? digits (. digits)?
JNumber(s, i) == JNumberFrom(s, i, IF Ch(s, i) = "-" THEN i + 1 ELSE i)

JWord(s, i, w) ==
  IF i + Len(w) - 1 <= Len(s) /\ SubSeq(s, i, i + Len(w) - 1) = w
    THEN [ok |-> TRUE, kind |-> w, text |-> w, next |-> i + Len(w)]
    ELSE JFail

\* A scalar JSON value at position i.
JScalar(s, i) ==
  IF Ch(s, i) = "\"" THEN JString(s, i)
  ELSE IF Ch(s, i) \in {"n", "t", "f"}
    THEN JWord(s, i, IF Ch(s, i) = "n" THEN "null" ELSE IF Ch(s, i) = "t" THEN "true" ELSE "false")
  ELSE JNumber(s, i)

NoMembers == [n \in {} |-> JFail]

JBad == [ok |-> FALSE, members |-> NoMembers, next |-> 0]

RECURSIVE JMembers(_, _, _)

JMemberEnd(s, e, acc) ==
  IF Ch(s, e) = "," THEN JMembers(s, e + 1, acc)
  ELSE IF Ch(s, e) = "}" THEN [ok |-> TRUE, members |-> acc, next |-> e + 1]
  ELSE JBad

JMemberValue(s, key, v, acc) ==
  IF ~v.ok THEN JBad
  ELSE JMemberEnd(s, SkipWs(s, v.next),
         [n \in DOMAIN acc \cup {key} |-> IF n = key THEN v ELSE acc[n]])

JMemberColon(s, k, c, acc) ==
  IF ~k.ok \/ Ch(s, c) # ":" THEN JBad
  ELSE JMemberValue(s, k.text, JScalar(s, SkipWs(s, c + 1)), acc)

JMemberKey(s, k, acc) == JMemberColon(s, k, SkipWs(s, k.next), acc)

\* The members of an object from position i, after its opening brace or a
\* comma; acc holds the members read so far, the last one of a repeated key
\* winning.
JMembers(s, i, acc) == JMemberKey(s, JString(s, SkipWs(s, i)), acc)

RECURSIVE JElements(_, _)

JElementEnd(s, e) ==
  IF Ch(s, e) = "," THEN JElements(s, e + 1)
  ELSE IF Ch(s, e) = "]" THEN [ok |-> TRUE, members |-> NoMembers, next |-> e + 1]
  ELSE JBad

JElement(s, v) == IF ~v.ok THEN JBad ELSE JElementEnd(s, SkipWs(s, v.next))

\* The elements of an array from position i.
JElements(s, i) == JElement(s, JScalar(s, SkipWs(s, i)))

JBody(s, open, i) ==
  IF Ch(s, i) = (IF open = "{" THEN "}" ELSE "]")
    THEN [ok |-> TRUE, members |-> NoMembers, next |-> i + 1]
  ELSE IF open = "{" THEN JMembers(s, i, NoMembers)
  ELSE JElements(s, i)

JWhole(s, r) ==
  IF r.ok /\ SkipWs(s, r.next) = Len(s) + 1
    THEN [throws |-> FALSE, members |-> r.members]
    ELSE [throws |-> TRUE, members |-> NoMembers]

\* JSON.parse of a text that starts with { or [ (objects and arrays of
\* scalars): throws when the text is no JSON, else gives the members of the
\* object (none for an array).
JSONparse(s) == JWhole(s, JBody(s, Ch(s, 1), SkipWs(s, 2)))

\* ------------------------------------------------------------------ metafields

\* The index of the first record of metafields, from i on, of the custom
\* namespace with the key; 0 when there is none.
RECURSIVE findMetafield(_, _, _)
findMetafield(metafields, key, i) ==
  IF i > Len(metafields) THEN 0
  ELSE IF metafields[i].key = key /\ metafields[i].namespace = "custom" THEN i
  ELSE findMetafield(metafields, key, i + 1)

metafieldAt(metafields, i) == IF i = 0 THEN NULL ELSE metafields[i].value

\* The index of the first record of metafields, from i on, with the key,
\* whatever its namespace; 0 when there is none.
RECURSIVE findKey(_, _, _)
findKey(metafields, key, i) ==
  IF i > Len(metafields) THEN 0
  ELSE IF metafields[i].key = key THEN i
  ELSE findKey(metafields, key, i + 1)

\* A find that does not look at the namespace.
getMetafieldValueAnyNamespace(metafields, key) ==
  metafieldAt(metafields, findKey(metafields, key, 1))

\* getMetafieldValue: the value of the first record of the custom namespace
\* with the key; null when there is none.
getMetafieldValue(metafields, key) ==
  metafieldAt(metafields, findMetafield(metafields, key, 1))

\* A reader that knows the plain encoding alone.
numericOfRaw(val, parsed) == OrZero(parseFloat(val))

\* parseFloat(parsed.value) || 0 when the decoded value has a value member.
numericOfParsed(val, parsed) ==
  IF ~parsed.throws /\ "value" \in DOMAIN parsed.members
    THEN OrZero(parseFloat(IF parsed.members["value"].kind \in {"string", "number"}
                             THEN parsed.members["value"].text ELSE NULL))
    ELSE OrZero(parseFloat(val))

numericOfTrimmed(val, trimmed) ==
  IF Ch(trimmed, 1) \in {"{", "["}
    THEN numericOfParsed(val, JSONparse(trimmed))
    ELSE OrZero(parseFloat(val))

numericOf(val) ==
  IF val = NULL \/ val = "" THEN Num(0) ELSE numericOfTrimmed(val, trim(val))

\* getNumericMetafieldValue, in tenths.
getNumericMetafieldValue(metafields, key) == numericOf(getMetafieldValue(metafields, key))

\* ------------------------------------------------------------------ tables

\* priceMap in declaration order, the multipliers in 200ths.
priceMap ==
  << [k |-> "24k", mult |-> 200], [k |-> "22k", mult |-> 185],
     [k |-> "18k", mult |-> 152], [k |-> "14k", mult |-> 120],
     [k |-> "9k", mult |-> 77] >>

\* discountMap, the factors in 100ths; 0 stands for a key that is absent.
discountMap(tag) ==
  IF tag = "10%" THEN 90 ELSE IF tag = "12%" THEN 88 ELSE IF tag = "15%" THEN 85 ELSE 0

allowedColors == <<"yellow gold", "rose gold", "white">>

\* ------------------------------------------------------------------ diamonds

trimmedOrNull(t) == IF t = NULL THEN NULL ELSE trim(t)

\* Slot n of a product: the trimmed type and the weight in tenths.
diamondSlot(metafields, n) ==
  [type |-> trimmedOrNull(getMetafieldValue(metafields, "diamond_" \o n)),
   weight |-> getNumericMetafieldValue(metafields, "diamond_weight_" \o n)]

\* The slots that survive .filter((item) => item.type): the type is neither
\* null nor empty.
selectedDiamonds(metafields) ==
  SelectSeq([n \in 1..3 |-> diamondSlot(metafields, SubSeq("123", n, n))],
            LAMBDA d : d.type # NULL /\ d.type # "")

\* The properties every object inherits from Object.prototype: a function or
\* an object each.
ObjectPrototype ==
  {"constructor", "toString", "toLocaleString", "valueOf", "hasOwnProperty",
   "isPrototypeOf", "propertyIsEnumerable", "__proto__", "__defineGetter__",
   "__defineSetter__", "__lookupGetter__", "__lookupSetter__"}

\* diamondPrices[typeNormalized] || 0, as the number the product with the
\* weight converts it to: the own property, else an inherited property (a
\* function or an object, which is truthy and converts to NaN), else 0.
perUnitOf(prices, type) ==
  IF type \in DOMAIN prices THEN Num(prices[type])
  ELSE IF type \in ObjectPrototype THEN NaN
  ELSE Num(0)

\* The reduce over the selected diamonds from the running sum, in 1/20000.
RECURSIVE SumDiamonds(_, _, _)
SumDiamonds(ds, prices, sum) ==
  IF Len(ds) = 0 THEN sum
  ELSE SumDiamonds(Tail(ds), prices,
         Add(sum, Times(Mul(perUnitOf(prices, trim(ds[1].type)), ds[1].weight), 2000)))

\* totalDiamondPrice of a product.
totalDiamondPriceOf(product, prices) ==
  SumDiamonds(selectedDiamonds(product.metafields), prices, Num(0))

\* ------------------------------------------------------------------ variants

\* allowedColors.some((color) => titleLower.includes(color))
colorAllowed(titleLower) ==
  \E i \in 1..Len(allowedColors) : includes(titleLower, allowedColors[i])

\* The index of the first key of priceMap, in declaration order and from i
\* on, that titleLower contains; 0 when there is none.
RECURSIVE findKarat(_, _)
findKarat(titleLower, i) ==
  IF i > Len(priceMap) THEN 0
  ELSE IF includes(titleLower, priceMap[i].k) THEN i
  ELSE findKarat(titleLower, i + 1)

\* The first position at which s contains k, 0 when it does not.
positionIn(s, k) ==
  IF includes(s, k)
    THEN CHOOSE i \in 1..Len(s) :
           /\ SubSeq(s, i, i + Len(k) - 1) = k
           /\ \A j \in 1..(i - 1) : j + Len(k) - 1 > Len(s) \/ SubSeq(s, j, j + Len(k) - 1) # k
    ELSE 0

\* The key of priceMap that occurs first in titleLower, as an index into
\* priceMap; 0 when there is none.
earliestKarat(titleLower) ==
  IF \A i \in 1..Len(priceMap) : positionIn(titleLower, priceMap[i].k) = 0 THEN 0
  ELSE CHOOSE i \in 1..Len(priceMap) :
         /\ positionIn(titleLower, priceMap[i].k) > 0
         /\ \A j \in 1..Len(priceMap) :
              positionIn(titleLower, priceMap[j].k) > 0
                => positionIn(titleLower, priceMap[i].k) <= positionIn(titleLower, priceMap[j].k)

\* A find that goes by the position in the title, not by the order of the
\* table.
karatKeyByPosition(title) == earliestKarat(toLowerCase(title))

\* Object.keys(priceMap).find(...), as an index into priceMap.
karatKey(title) == findKarat(toLowerCase(title), 1)

\* Object.keys(priceMap).some(...)
karatRecognized(title) == karatKey(title) # 0

\* The first filter applied to the title as written, not lower-cased.
qualifiesCaseSensitive(edge) == colorAllowed(edge.title) /\ karatRecognized(edge.title)

\* Both filters of lines 174-181.
qualifies(edge) == colorAllowed(toLowerCase(edge.title)) /\ karatRecognized(edge.title)

\* The edges that pass both filters, in order.
qualifying(edges) == SelectSeq(edges, qualifies)

\* priceMap[karatKey] || 0
multiplierOf(i) == IF i = 0 THEN 0 ELSE priceMap[i].mult

\* The position where the leftmost match of /(\d+)\s*%/ starts in title, from
\* i on; 0 when there is none.
RECURSIVE matchStart(_, _)
matchStart(title, i) ==
  IF i > Len(title) THEN 0
  ELSE IF IsDigit(Ch(title, i))
          /\ Ch(title, SkipWs(title, i + DigitRun(From(title, i)))) = "%"
    THEN i
  ELSE matchStart(title, i + 1)

matchFrom(title, i) ==
  IF i = 0 THEN ""
  ELSE SubSeq(title, i, SkipWs(title, i + DigitRun(From(title, i))))

\* title.match(discountRegex)[0], "" when there is no match.
discountMatch(title) == matchFrom(title, matchStart(title, 1))

\* A replace that leaves the white space in.
keepSpaces(s) == s

\* replace(/\s+/g, '')
RECURSIVE stripSpaces(_)
stripSpaces(s) ==
  IF Len(s) = 0 THEN s
  ELSE (IF IsSpace(SubSeq(s, 1, 1)) THEN "" ELSE SubSeq(s, 1, 1)) \o stripSpaces(Tail(s))

factorOfMatch(m) == IF m = "" THEN 0 ELSE discountMap(stripSpaces(m))

\* The position where the leftmost match that is a key of discountMap starts.
RECURSIVE configuredStart(_, _)
configuredStart(title, i) ==
  IF i > Len(title) THEN 0
  ELSE IF IsDigit(Ch(title, i))
          /\ Ch(title, SkipWs(title, i + DigitRun(From(title, i)))) = "%"
          /\ discountMap(stripSpaces(matchFrom(title, i))) # 0
    THEN i
  ELSE configuredStart(title, i + 1)

\* A factor that is looked up for the first token that is a configured tag.
discountFactorConfigured(title) == factorOfMatch(matchFrom(title, configuredStart(title, 1)))

\* The discount factor of a title in 100ths; 0 when no factor applies.
discountFactorOf(title) == factorOfMatch(discountMatch(title))

\* makingChargesForWeight, in 1/20000.
makingChargesForWeight(makingCharges, weight) ==
  IF Positive(weight) THEN Times(Mul(makingCharges, weight), 200) ELSE Num(0)

\* A gold and making cost whose making charge is not guarded by weight > 0.
goldAndMakingUnguarded(price, makingCharges, mult, weight) ==
  Add(Mul(Mul(price, Num(mult)), weight), Times(Mul(makingCharges, weight), 200))

\* goldAndMakingCost, in 1/20000; price, makingCharges and weight in tenths.
goldAndMakingCostOf(price, makingCharges, mult, weight) ==
  Add(Mul(Mul(price, Num(mult)), weight), makingChargesForWeight(makingCharges, weight))

\* discountedDiamondCost
discountedDiamondCostOf(totalDiamondPrice, factor) ==
  IF factor = 0 \/ totalDiamondPrice.nan \/ totalDiamondPrice.inf # 0
    THEN totalDiamondPrice
    ELSE Num((totalDiamondPrice.v \div 100) * factor)

\* updatedPrice, in 1/20000.
updatedPriceOf(goldAndMakingCost, discountedDiamondCost) ==
  Add(goldAndMakingCost, discountedDiamondCost)

\* compareAtPrice, in 1/20000.
compareAtPriceOf(goldAndMakingCost, totalDiamondPrice) ==
  Add(goldAndMakingCost, totalDiamondPrice)

\* The log line and the update entry of a variant, the amounts as toFixed(2)
\* prints them.
variantResult(edge, weight, factor, gm, dd, up, ca) ==
  [throws |-> FALSE,
   log |-> [kind |-> "variant", title |-> edge.title, product |-> "",
            warning |-> Falsy(weight), weight |-> weight, discount |-> factor,
            goldMaking |-> toFixed(gm), diamond |-> toFixed(dd),
            final |-> toFixed(up), compareAt |-> toFixed(ca), total |-> Num(0),
            messages |-> << >>],
   entry |-> [id |-> edge.id, price |-> toFixed(up), compareAtPrice |-> toFixed(ca)]]

variantSums(edge, weight, factor, gm, dd, totalDiamondPrice) ==
  variantResult(edge, weight, factor, gm, dd,
                updatedPriceOf(gm, dd), compareAtPriceOf(gm, totalDiamondPrice))

variantCosts(edge, weight, factor, price, makingCharges, totalDiamondPrice) ==
  variantSums(edge, weight, factor,
              goldAndMakingCostOf(price, makingCharges,
                                  multiplierOf(karatKey(edge.title)), weight),
              discountedDiamondCostOf(totalDiamondPrice, factor),
              totalDiamondPrice)

\* The body of the .map callback for one qualifying edge (lines 182-230), or
\* the TypeError of reading .edges of a missing metafields connection.
variantStep(edge, price, makingCharges, totalDiamondPrice) ==
  IF "metafields" \notin DOMAIN edge
    THEN [throws |-> TRUE]
    ELSE variantCosts(edge, getNumericMetafieldValue(edge.metafields, "weight"),
                      discountFactorOf(edge.title), price, makingCharges, totalDiamondPrice)

ReadEdges == "Cannot read properties of undefined (reading 'edges')"

NoEntries ==
  [throws |-> FALSE, reason |-> "", logs |-> << >>, variants |-> << >>, total |-> Num(0)]

RECURSIVE mapVariants(_, _, _, _, _)

mapVariantsStep(r, es, price, makingCharges, totalDiamondPrice, acc) ==
  IF r.throws THEN [acc EXCEPT !.throws = TRUE, !.reason = ReadEdges]
  ELSE mapVariants(Tail(es), price, makingCharges, totalDiamondPrice,
         [acc EXCEPT !.logs = Append(@, r.log), !.variants = Append(@, r.entry)])

\* .map over the qualifying edges, left to right, up to the first throw.
mapVariants(es, price, makingCharges, totalDiamondPrice, acc) ==
  IF Len(es) = 0 THEN acc
  ELSE mapVariantsStep(variantStep(es[1], price, makingCharges, totalDiamondPrice),
                       es, price, makingCharges, totalDiamondPrice, acc)

productLine(product, total) ==
  [kind |-> "product", title |-> product.title, product |-> product.title,
   warning |-> FALSE, weight |-> Num(0), discount |-> 0, goldMaking |-> "",
   diamond |-> "", final |-> "", compareAt |-> "", total |-> total, messages |-> << >>]

textLine(kind, product, messages) ==
  [kind |-> kind, title |-> "", product |-> product, warning |-> FALSE,
   weight |-> Num(0), discount |-> 0, goldMaking |-> "", diamond |-> "", final |-> "",
   compareAt |-> "", total |-> Num(0), messages |-> messages]

syncEnd(product, r) ==
  IF ~r.throws /\ Len(r.variants) = 0
    THEN [r EXCEPT !.logs = Append(@, textLine("norecognized", product.title, << >>))]
    ELSE r

syncVariants(product, price, makingCharges, total) ==
  syncEnd(product,
          mapVariants(qualifying(product.variants), price, makingCharges, total,
                      [NoEntries EXCEPT !.logs = <<productLine(product, total)>>,
                                         !.total = total]))

\* The async callback of productData.map up to its first await (lines
\* 141-235): the lines it pushes to debugLogs, and either the exception it
\* throws or the update entries of the product's qualifying variants (none:
\* it returns null).
syncPart(product, prices, price, makingCharges) ==
  IF "metafields" \notin DOMAIN product
    THEN [NoEntries EXCEPT !.throws = TRUE, !.reason = ReadEdges]
    ELSE syncVariants(product, price, makingCharges, totalDiamondPriceOf(product, prices))

\* ------------------------------------------------------------------ state

VARIABLES
  formPrice,       \* formData.get("price"), NULL when the field is missing
  formMaking,      \* formData.get("makingCharges")
  diamondPrices,   \* JSON.parse(formData.get("diamondPrices"))
  productData,     \* JSON.parse(formData.get("productData"))
  pc,              \* where the action is: "validate", "map", "await", "returned"
  next,            \* the index of the product .map calls the async callback on next
  promise,         \* updatePromises: for every product started, its promise
  all,             \* the promise of Promise.all(updatePromises)
  debugLogs,       \* the debugLogs array
  calls,           \* every admin.graphql mutation issued so far
  inflight,        \* the mutations issued and neither resolved nor rejected
  faults,          \* how many mutations the collaborator has failed so far
  outcome,         \* the object the action returned
  other            \* the locals of the other invocation of the action, if any

vars ==
  << formPrice, formMaking, diamondPrices, productData, pc, next, promise, all,
     debugLogs, calls, inflight, faults, outcome, other >>

\* The most products of a batch that is explored with every mix of products.
MaxProducts == 3

\* The group size the specification gives as the default concurrency bound.
GroupSize == 5

\* The most mutations the catalog-update collaborator fails (throws or
\* reports userErrors for) in a run.
MaxFaults == 2

price == parseFloat(formPrice)

makingCharges == OrZero(parseFloat(formMaking))

\* A promise of updatePromises: its state, the totalDiamondPrice its callback
\* holds across its awaits, and of the response of the variants mutation
\* whether it has a data member and its userErrors.
Pending ==
  [state |-> "pending", userErrors |-> << >>, reason |-> "", data |-> TRUE, total |-> Num(0)]

\* The reason of the promise of the lowest index, from i on, that rejected.
RECURSIVE firstRejected(_, _)
firstRejected(ps, i) ==
  IF ps[i].state = "rejected" THEN ps[i].reason ELSE firstRejected(ps, i + 1)

\* The state of Promise.all(updatePromises) over the promises ps when it was
\* a before: it rejects with the reason of the first promise to reject (of
\* the lowest index among promises that had rejected before it was created)
\* and fulfils once every promise has.
allOf(a, ps) ==
  IF a.state # "pending" THEN a
  ELSE IF \E i \in DOMAIN ps : ps[i].state = "rejected"
    THEN [state |-> "rejected", reason |-> firstRejected(ps, 1)]
  ELSE IF \A i \in DOMAIN ps : ps[i].state = "fulfilled"
    THEN [state |-> "fulfilled", reason |-> ""]
  ELSE a

\* ------------------------------------------------------------------ inputs

gid(i) == "gid://shopify/Product/" \o digit(i)

mf(key, value) == [namespace |-> "custom", key |-> key, value |-> value]

\* A product with one diamond slot, a qualifying variant with a discount tag
\* and a variant that does not qualify.
ringProduct(i) ==
  [id |-> gid(i), title |-> "Ring " \o digit(i),
   metafields |-> << mf("diamond_1", "Round Solitaire 2ct+"), mf("diamond_weight_1", "1") >>,
   variants |-> << [id |-> gid(i) \o "/1", title |-> "18k Yellow Gold / 10%",
                    metafields |-> << mf("weight", "{\"value\": 5, \"unit\": \"GRAMS\"}") >>],
                   [id |-> gid(i) \o "/2", title |-> "Platinum",
                    metafields |-> << mf("weight", "4") >>] >>]

\* A product with a padded diamond type and one qualifying variant.
bandProduct(i) ==
  [id |-> gid(i), title |-> "Band " \o digit(i),
   metafields |-> << mf("diamond_1", " Small Diamonds "), mf("diamond_weight_1", "0.5") >>,
   variants |-> << [id |-> gid(i) \o "/1", title |-> "14K Rose Gold",
                    metafields |-> << mf("weight", "3.5") >>] >>]

\* A product none of whose variants qualifies.
plainProduct(i) ==
  [id |-> gid(i), title |-> "Plain " \o digit(i),
   metafields |-> << >>,
   variants |-> << [id |-> gid(i) \o "/1", title |-> "Platinum",
                    metafields |-> << mf("weight", "4") >>] >>]

\* A product whose second qualifying variant carries no metafields connection
\* (the shape the older loader query returns), so the callback throws.
brokenProduct(i) ==
  [id |-> gid(i), title |-> "Broken " \o digit(i),
   metafields |-> << mf("diamond_1", "Gemstones"), mf("diamond_weight_1", "1") >>,
   variants |-> << [id |-> gid(i) \o "/1", title |-> "9k White",
                    metafields |-> << mf("weight", "2") >>],
                   [id |-> gid(i) \o "/2", title |-> "22k White"] >>]

productOf(i, kind) ==
  IF kind = "plain" THEN plainProduct(i)
  ELSE IF kind = "broken" THEN brokenProduct(i)
  ELSE IF i % 2 = 1 THEN ringProduct(i)
  ELSE bandProduct(i)

\* The batches of a run: n products, rings and bands in turn, except for the
\* one at position s (none when s = 0), which is plain or broken.
batch(n, s, kind) == [i \in 1..n |-> productOf(i, IF i = s THEN kind ELSE "")]

\* One product more than a group: rings and bands only.
wideBatch == batch(GroupSize + 1, 0, "")

Batches ==
  {batch(n, s, k) : n \in 0..MaxProducts, s \in 0..MaxProducts, k \in {"plain", "broken"}}
    \cup {wideBatch}

\* How many mutations the collaborator may fail in this run: MaxFaults, and
\* one in a batch of more than MaxProducts products.
FaultBudget == IF Len(productData) > MaxProducts THEN 1 ELSE MaxFaults

\* The table the form sends by default (the useState initial value).
defaultDiamondPrices ==
  [t \in {"Round Solitaire 5ct+", "Round Solitaire 3ct+", "Round Solitaire 2ct+",
          "Round Solitaire 0.50ct+", "Fancy Solitaire 5ct+", "Fancy Solitaire 3ct+",
          "Fancy Solitaire 2ct+", "Fancy Solitaire 0.5ct+"} |-> 30000]
  @@ [t \in {"Small Diamonds", "Gemstones"} |-> 15000]

FormPrices == {"8000", "0", "-5", "abc", "", NULL}

\* The locals of an invocation of the action that has not started: where it
\* is, its updatePromises and debugLogs, its mutations and what it returned.
freshRun ==
  [pc |-> "validate", next |-> 1, promise |-> << >>,
   all |-> [state |-> "none", reason |-> ""], debugLogs |-> << >>,
   calls |-> {}, inflight |-> {},
   outcome |-> [success |-> FALSE, message |-> "", debugLogs |-> << >>]]

InitRun ==
  /\ pc = freshRun.pc
  /\ next = freshRun.next
  /\ promise = freshRun.promise
  /\ all = freshRun.all
  /\ debugLogs = freshRun.debugLogs
  /\ calls = freshRun.calls
  /\ inflight = freshRun.inflight
  /\ faults = 0
  /\ outcome = freshRun.outcome
  /\ other = freshRun

Init ==
  /\ formPrice \in FormPrices
  /\ formMaking = "1200"
  /\ diamondPrices = defaultDiamondPrices
  /\ productData \in Batches
  /\ InitRun

\* The inputs of the pricing of one product: titles, weight attributes,
\* diamond slots and tables chosen to reach every branch of lines 143-230.
PricingTitles ==
  {"18k Yellow Gold / 10%", "14K Rose Gold 12 %", "22k White 20%", "Platinum",
   "9k Silver", "Yellow Gold", "14k 18k white 5 15%", "24K ROSE GOLD"}

PricingWeights ==
  { << mf("weight", "5") >>,
    << mf("weight", "{\"value\": 3.5, \"unit\": \"GRAMS\"}") >>,
    << mf("weight", "0") >>,
    << mf("weight", "N/A") >>,
    << mf("weight", "-2") >>,
    << [namespace |-> "global", key |-> "weight", value |-> "4"] >> }

PricingSlots ==
  { << >>,
    << mf("diamond_1", "Round Solitaire 2ct+"), mf("diamond_weight_1", "1") >>,
    << mf("diamond_1", "Moissanite"), mf("diamond_weight_1", "2") >>,
    << mf("diamond_2", " Gemstones"), mf("diamond_weight_2", "{\"value\": 0.5}"),
       mf("diamond_3", "Small Diamonds"), mf("diamond_weight_3", "0.3") >>,
    << mf("diamond_1", "Small Diamonds"), mf("diamond_weight_1", "-1.5") >> }

PricingTables ==
  { defaultDiamondPrices,
    [t \in {"Small Diamonds"} |-> 0 - 15000] @@ defaultDiamondPrices }

pricingProduct(slots, title, weight, title2) ==
  [id |-> gid(1), title |-> "Ring 1", metafields |-> slots,
   variants |-> << [id |-> gid(1) \o "/1", title |-> title, metafields |-> weight],
                   [id |-> gid(1) \o "/2", title |-> title2,
                    metafields |-> << mf("weight", "2.5") >>] >>]

PricingBatches ==
  { <<pricingProduct(slots, title, weight, title2)>> :
      slots \in PricingSlots, title \in PricingTitles, weight \in PricingWeights,
      title2 \in {"Platinum", "24k White 15%", "9k yellow gold"} }

\* A run over one product, drawn from the pricing inputs.
InitPricing ==
  /\ formPrice \in {"8000", "0.5"}
  /\ formMaking \in {"1200", "abc"}
  /\ diamondPrices \in PricingTables
  /\ productData \in PricingBatches
  /\ InitRun

\* The weight attribute of a variant in every shape getNumericMetafieldValue
\* tells apart: absent, empty, plain, padded, JSON with a number, a string, a
\* non-numeric or null value, JSON without value, malformed JSON, an array,
\* text, a numeric prefix, negative, zero, Infinity, another namespace, a
\* repeated key, the key in another namespace before the custom one, another
\* key before the key, JSON with the unit first, and padded JSON.
AttributeWeights ==
  { << >>,
    << mf("weight", "") >>,
    << mf("weight", "5") >>,
    << mf("weight", " 2.5 ") >>,
    << mf("weight", "{\"value\": 3.5, \"unit\": \"GRAMS\"}") >>,
    << mf("weight", "{\"value\": \"4\"}") >>,
    << mf("weight", "{\"value\": \"abc\"}") >>,
    << mf("weight", "{\"value\": null}") >>,
    << mf("weight", "{\"unit\": \"GRAMS\"}") >>,
    << mf("weight", "{\"value\": 5") >>,
    << mf("weight", "[7]") >>,
    << mf("weight", "N/A") >>,
    << mf("weight", "3abc") >>,
    << mf("weight", "-2") >>,
    << mf("weight", "0") >>,
    << mf("weight", "Infinity") >>,
    << [namespace |-> "global", key |-> "weight", value |-> "4"] >>,
    << mf("weight", "abc"), mf("weight", "3") >>,
    << [namespace |-> "global", key |-> "weight", value |-> "4"], mf("weight", "3") >>,
    << mf("height", "9"), mf("weight", "2"), mf("weight", "6") >>,
    << mf("weight", "{\"unit\": \"KILOGRAMS\", \"value\": 3.5}") >>,
    << mf("weight", " {\"value\": 2} ") >> }

\* The diamond attributes of a product: none, a priced type, a type of white
\* space, an empty type, a type the table lacks, a type that names a property
\* objects inherit, two slots, an unparsable weight, an infinite weight, and a
\* weight without type.
AttributeSlots ==
  { << >>,
    << mf("diamond_1", "Round Solitaire 2ct+"), mf("diamond_weight_1", "1") >>,
    << mf("diamond_1", "  "), mf("diamond_weight_1", "2") >>,
    << mf("diamond_1", ""), mf("diamond_weight_1", "2") >>,
    << mf("diamond_1", "Moissanite"), mf("diamond_weight_1", "2") >>,
    << mf("diamond_1", "constructor"), mf("diamond_weight_1", "2") >>,
    << mf("diamond_2", " Gemstones"), mf("diamond_weight_2", "{\"value\": 0.5}"),
       mf("diamond_3", "Small Diamonds"), mf("diamond_weight_3", "0.3") >>,
    << mf("diamond_1", "Small Diamonds"), mf("diamond_weight_1", "N/A") >>,
    << mf("diamond_1", "Moissanite"), mf("diamond_weight_1", "Infinity") >>,
    << mf("diamond_weight_1", "3") >> }

AttributeBatches ==
  { <<pricingProduct(slots, "18k Yellow Gold / 10%", weight, "Platinum")>> :
      slots \in AttributeSlots, weight \in AttributeWeights }

\* A run over one product, drawn from the attribute inputs, on a finite and
\* on an infinite price.
InitAttributes ==
  /\ formPrice \in {"8000", "Infinity"}
  /\ formMaking = "1200"
  /\ diamondPrices = defaultDiamondPrices
  /\ productData \in AttributeBatches
  /\ InitRun

\* The batches of two requests: two products, the one at position s (none
\* when s = 0) plain or broken.
RunBatches == {batch(2, s, k) : s \in 0..2, k \in {"plain", "broken"}}

\* Two requests with the same form data.
InitRuns ==
  /\ formPrice = "8000"
  /\ formMaking = "1200"
  /\ diamondPrices = defaultDiamondPrices
  /\ productData \in RunBatches
  /\ InitRun

\* Titles with several percent tokens: the leftmost unconfigured and a later
\* one configured, both configured, white space inside the token, a leftmost
\* token that ends in a configured tag, and a single token.
DiscountTitles ==
  {"18k white 20% 10%", "18k white 10% 15%", "14k rose gold 15 % 12%",
   "22k yellow gold 5% 12 %", "9k white 110% 10%", "18k white 0% 15% 10%",
   "24k white 12%", "18k white 10%10%"}

DiscountBatches ==
  { <<pricingProduct(slots, title, << mf("weight", "5") >>, title2)>> :
      slots \in { << mf("diamond_1", "Round Solitaire 2ct+"), mf("diamond_weight_1", "1") >>,
                  << mf("diamond_2", " Gemstones"), mf("diamond_weight_2", "{\"value\": 0.5}"),
                     mf("diamond_3", "Small Diamonds"), mf("diamond_weight_3", "0.3") >> },
      title \in DiscountTitles,
      title2 \in {"Platinum", "24k White 25% 15%"} }

\* A run over one product whose variant titles carry several percent tokens.
InitDiscounts ==
  /\ formPrice = "8000"
  /\ formMaking = "1200"
  /\ diamondPrices = defaultDiamondPrices
  /\ productData \in DiscountBatches
  /\ InitRun

\* ------------------------------------------------------------------ the action

\* The check of a price that is not a slip of the check of line 110: <= 0
\* written as < 0.
invalidPriceSlip(p) == p.nan \/ SignOf(p) < 0

\* isNaN(price) || price <= 0
invalidPrice(p) == p.nan \/ NotPositive(p)

\* Lines 108-112: the price is parsed and checked before anything else.
Validate ==
  /\ pc = "validate"
  /\ IF invalidPrice(price)
       THEN /\ pc' = "returned"
            /\ outcome' = [success |-> FALSE, message |-> "Invalid gold price provided.",
                           debugLogs |-> <<textLine("invalid", "", <<"Invalid gold price.">>)>>]
       ELSE /\ pc' = "map"
            /\ UNCHANGED outcome
  /\ UNCHANGED << formPrice, formMaking, diamondPrices, productData, next, promise, all,
                  debugLogs, calls, inflight, faults, other >>

\* The place of the next mutation among those the callback of product i
\* issues: 1 for its first.
nthCall(i) == 1 + Cardinality({c \in calls : c.product = i})

\* The productVariantsBulkUpdate mutation of product i (lines 238-263).
variantsCall(i, entries) ==
  [kind |-> "productVariantsBulkUpdate", product |-> i, productId |-> productData[i].id,
   variants |-> entries, value |-> "", nth |-> nthCall(i)]

\* The metafieldsSet mutation of product i (lines 266-295); its value is the
\* totalDiamondPrice the callback computed before its first await.
metafieldCall(i) ==
  [kind |-> "metafieldsSet", product |-> i, productId |-> productData[i].id,
   variants |-> << >>, value |-> toFixed(promise[i].total), nth |-> nthCall(i)]

\* A callback that goes on to the variants mutation with no entry at all.
StartedAlways(r) ==
  /\ debugLogs' = debugLogs \o r.logs
  /\ promise' = Append(promise,
       IF r.throws THEN [Pending EXCEPT !.state = "rejected", !.reason = r.reason]
       ELSE [Pending EXCEPT !.state = "awaitVariants", !.total = r.total])
  /\ IF ~r.throws
       THEN /\ calls' = calls \cup {variantsCall(next, r.variants)}
            /\ inflight' = inflight \cup {<<"productVariantsBulkUpdate", next>>}
       ELSE UNCHANGED << calls, inflight >>

\* A callback that puts its lines before those of the products mapped so far.
StartedLogsFirst(r) ==
  /\ debugLogs' = r.logs \o debugLogs
  /\ promise' = Append(promise,
       IF r.throws THEN [Pending EXCEPT !.state = "rejected", !.reason = r.reason]
       ELSE IF Len(r.variants) = 0 THEN [Pending EXCEPT !.state = "fulfilled", !.reason = "null"]
       ELSE [Pending EXCEPT !.state = "awaitVariants", !.total = r.total])
  /\ IF ~r.throws /\ Len(r.variants) > 0
       THEN /\ calls' = calls \cup {variantsCall(next, r.variants)}
            /\ inflight' = inflight \cup {<<"productVariantsBulkUpdate", next>>}
       ELSE UNCHANGED << calls, inflight >>

\* What the callback leaves behind at its first await, r being its
\* synchronous part.
Started(r) ==
  /\ debugLogs' = debugLogs \o r.logs
  /\ promise' = Append(promise,
       IF r.throws THEN [Pending EXCEPT !.state = "rejected", !.reason = r.reason]
       ELSE IF Len(r.variants) = 0 THEN [Pending EXCEPT !.state = "fulfilled", !.reason = "null"]
       ELSE [Pending EXCEPT !.state = "awaitVariants", !.total = r.total])
  /\ IF ~r.throws /\ Len(r.variants) > 0
       THEN /\ calls' = calls \cup {variantsCall(next, r.variants)}
            /\ inflight' = inflight \cup {<<"productVariantsBulkUpdate", next>>}
       ELSE UNCHANGED << calls, inflight >>

\* productData.map calls the async callback on the next product; the callback
\* runs up to its first await (lines 141-238): it throws, returns null, or
\* issues the variants mutation.
MapProduct ==
  /\ pc = "map"
  /\ next <= Len(productData)
  /\ Started(syncPart(productData[next], diamondPrices, price, makingCharges))
  /\ next' = next + 1
  /\ UNCHANGED << formPrice, formMaking, diamondPrices, productData, pc, all, faults, outcome,
                  other >>

\* Line 311: Promise.all(updatePromises) is created and awaited.
AwaitAll ==
  /\ pc = "map"
  /\ next = Len(productData) + 1
  /\ pc' = "await"
  /\ all' = allOf([state |-> "pending", reason |-> ""], promise)
  /\ UNCHANGED << formPrice, formMaking, diamondPrices, productData, next, promise,
                  debugLogs, calls, inflight, faults, outcome, other >>

\* The continuation of the action runs as soon as Promise.all settles, before
\* any further response is delivered.
FinishPending == pc = "await" /\ all.state # "pending"

\* What a mutation does: it resolves with a response without userErrors, with
\* userErrors, or with a body that has no data member, or it rejects.
Responses == {"ok", "userErrors", "noData", "throws"}

\* The TypeError of reading a member of the missing data of a response.
ReadData(member) == "Cannot read properties of undefined (reading '" \o member \o "')"

variantsUserErrors(i) == <<"Price is invalid for " \o productData[i].id>>

metafieldUserErrors(i) == <<"Value is invalid for " \o productData[i].id>>

variantsFailure(i) == "Variants update failed for " \o productData[i].id

metafieldFailure(i) == "Metafield update failed for " \o productData[i].id

\* A callback that writes the attribute only when the variants mutation
\* reported no userErrors, and returns the response otherwise.
VariantsResponseChecked(i, resp) ==
  /\ pc \in {"await", "returned"}
  /\ ~FinishPending
  /\ i \in DOMAIN promise
  /\ promise[i].state = "awaitVariants"
  /\ resp # "ok" => faults < FaultBudget
  /\ faults' = IF resp = "ok" THEN faults ELSE faults + 1
  /\ promise' = [promise EXCEPT ![i] =
       IF resp = "throws" THEN [@ EXCEPT !.state = "rejected", !.reason = variantsFailure(i)]
       ELSE IF resp = "userErrors"
         THEN [@ EXCEPT !.state = "fulfilled", !.userErrors = variantsUserErrors(i)]
       ELSE [@ EXCEPT !.state = "awaitMetafield", !.data = resp # "noData"]]
  /\ inflight' = (inflight \ {<<"productVariantsBulkUpdate", i>>})
                   \cup (IF resp \in {"ok", "noData"} THEN {<<"metafieldsSet", i>>} ELSE {})
  /\ calls' = calls \cup (IF resp \in {"ok", "noData"} THEN {metafieldCall(i)} ELSE {})
  /\ all' = allOf(all, promise')
  /\ UNCHANGED << formPrice, formMaking, diamondPrices, productData, pc, next, debugLogs,
                  outcome, other >>

\* Lines 238-266: the variants mutation of product i resolves or rejects; on
\* a response the callback issues the metafield mutation.
VariantsResponse(i, resp) ==
  /\ pc \in {"await", "returned"}
  /\ ~FinishPending
  /\ i \in DOMAIN promise
  /\ promise[i].state = "awaitVariants"
  /\ resp # "ok" => faults < FaultBudget
  /\ faults' = IF resp = "ok" THEN faults ELSE faults + 1
  /\ promise' = [promise EXCEPT ![i] =
       IF resp = "throws" THEN [@ EXCEPT !.state = "rejected", !.reason = variantsFailure(i)]
       ELSE [@ EXCEPT !.state = "awaitMetafield",
                      !.data = resp # "noData",
                      !.userErrors = IF resp = "userErrors" THEN variantsUserErrors(i)
                                     ELSE << >>]]
  /\ inflight' = (inflight \ {<<"productVariantsBulkUpdate", i>>})
                   \cup (IF resp = "throws" THEN {} ELSE {<<"metafieldsSet", i>>})
  /\ calls' = calls \cup (IF resp = "throws" THEN {} ELSE {metafieldCall(i)})
  /\ all' = allOf(all, promise')
  /\ UNCHANGED << formPrice, formMaking, diamondPrices, productData, pc, next, debugLogs,
                  outcome, other >>

\* Lines 266-308: the metafield mutation of product i resolves or rejects; its
\* userErrors are pushed to debugLogs and the callback returns the variants
\* response.  Reading the userErrors of a response without data throws (line
\* 298), which rejects the promise of the callback.
MetafieldResponse(i, resp) ==
  /\ pc \in {"await", "returned"}
  /\ ~FinishPending
  /\ i \in DOMAIN promise
  /\ promise[i].state = "awaitMetafield"
  /\ resp # "ok" => faults < FaultBudget
  /\ faults' = IF resp = "ok" THEN faults ELSE faults + 1
  /\ promise' = [promise EXCEPT ![i] =
       IF resp = "throws" THEN [@ EXCEPT !.state = "rejected", !.reason = metafieldFailure(i)]
       ELSE IF resp = "noData"
         THEN [@ EXCEPT !.state = "rejected", !.reason = ReadData("metafieldsSet")]
       ELSE [@ EXCEPT !.state = "fulfilled"]]
  /\ debugLogs' = IF resp = "userErrors"
       THEN Append(debugLogs,
              textLine("metafieldError", productData[i].title, metafieldUserErrors(i)))
       ELSE debugLogs
  /\ inflight' = inflight \ {<<"metafieldsSet", i>>}
  /\ all' = allOf(all, promise')
  /\ UNCHANGED << formPrice, formMaking, diamondPrices, productData, pc, next, calls, outcome,
                  other >>

\* The userErrors of the first result alone.
firstUserErrors(ps) == IF Len(ps) = 0 THEN << >> ELSE ps[1].userErrors

\* results.flatMap(userErrors) over the non-null results, in product order.
RECURSIVE flatUserErrors(_)
flatUserErrors(ps) ==
  IF Len(ps) = 0 THEN << >>
  ELSE (IF ps[1].reason = "null" THEN << >> ELSE ps[1].userErrors) \o flatUserErrors(Tail(ps))

\* A return that leaves the logs out of the failure object.
returnedWithoutLogs(errors, logs) ==
  IF Len(errors) > 0
    THEN [success |-> FALSE, message |-> "Error updating prices: " \o join(errors, ", "),
          debugLogs |-> << >>]
    ELSE [success |-> TRUE, message |-> "Product prices updated successfully",
          debugLogs |-> logs]

\* The object returned at lines 316-324, errors being the userErrors of the
\* variants responses.
returned(errors, logs) ==
  IF Len(errors) > 0
    THEN [success |-> FALSE, message |-> "Error updating prices: " \o join(errors, ", "),
          debugLogs |-> logs]
    ELSE [success |-> TRUE, message |-> "Product prices updated successfully",
          debugLogs |-> logs]

\* A try block that covers the await of Promise.all alone.
thrownByPromiseAll(a, ps) == IF a.state = "rejected" THEN a.reason ELSE ""

\* The error the try block of lines 139-324 throws once Promise.all has
\* settled, "" when it throws none: the reason Promise.all rejected with, or
\* the TypeError of the flatMap of line 313 on a result without data.
thrownInTry(a, ps) ==
  IF a.state = "rejected" THEN a.reason
  ELSE IF \E i \in DOMAIN ps : ps[i].reason # "null" /\ ~ps[i].data
    THEN ReadData("productVariantsBulkUpdate")
  ELSE ""

\* Lines 311-329: the action resumes once Promise.all has settled and returns
\* from the try block or from the catch.
Finish ==
  /\ FinishPending
  /\ pc' = "returned"
  /\ IF thrownInTry(all, promise) # ""
       THEN /\ debugLogs' = Append(debugLogs,
                 textLine("updateError", "",
                          <<"Update error: " \o thrownInTry(all, promise)>>))
            /\ outcome' = [success |-> FALSE, message |-> thrownInTry(all, promise),
                           debugLogs |-> debugLogs']
       ELSE /\ UNCHANGED debugLogs
            /\ outcome' = returned(flatUserErrors(promise), debugLogs)
  /\ UNCHANGED << formPrice, formMaking, diamondPrices, productData, next, promise, all,
                  calls, inflight, faults, other >>

\* One array of trace lines for every invocation: the invocation that resumes
\* goes on with the array the other one was writing.
debugLogsShared(own, current) == current

\* Line 118: debugLogs is a local of the action, so the invocation that
\* resumes works on its own array.
debugLogsOf(own, current) == own

\* A second request for the same form data.  The action is an async function
\* and each request invokes it anew (line 103), with its own locals; the
\* event loop leaves an invocation only where it awaits: before it has read
\* the form (lines 104-105), while it awaits Promise.all (line 311) or a
\* callback of it awaits a mutation (lines 238, 266), and after it returned.
\* The step gives the control to the other invocation.
Switch ==
  /\ pc \in {"validate", "await", "returned"}
  /\ ~FinishPending
  /\ other' = [pc |-> pc, next |-> next, promise |-> promise, all |-> all,
               debugLogs |-> debugLogs, calls |-> calls, inflight |-> inflight,
               outcome |-> outcome]
  /\ pc' = other.pc
  /\ next' = other.next
  /\ promise' = other.promise
  /\ all' = other.all
  /\ debugLogs' = debugLogsOf(other.debugLogs, debugLogs)
  /\ calls' = other.calls
  /\ inflight' = other.inflight
  /\ outcome' = other.outcome
  /\ UNCHANGED << formPrice, formMaking, diamondPrices, productData, faults >>

Next ==
  \/ Validate
  \/ MapProduct
  \/ AwaitAll
  \/ \E i \in 1..Len(productData), resp \in Responses : VariantsResponse(i, resp)
  \/ \E i \in 1..Len(productData), resp \in Responses : MetafieldResponse(i, resp)
  \/ Finish

Spec == Init /\ [][Next]_vars

SpecPricing == InitPricing /\ [][Next]_vars

SpecAttributes == InitAttributes /\ [][Next]_vars

\* The steps of the action outside the loop of productData.map.
Continue == Validate \/ AwaitAll \/ Finish

\* A mutation in flight resolves or rejects.
Respond ==
  \/ \E i \in 1..Len(productData), resp \in Responses : VariantsResponse(i, resp)
  \/ \E i \in 1..Len(productData), resp \in Responses : MetafieldResponse(i, resp)

\* MapProduct can take a step: it always changes next.
MapReady == pc = "map" /\ next <= Len(productData)

\* Weak fairness of MapProduct, with MapReady for ENABLED <<MapProduct>>_vars.
MapGoesOn == []<>(~MapReady) \/ []<><<MapProduct>>_vars

\* A run in which the action goes on whenever it can (it is synchronous code
\* between its awaits) and every mutation issued eventually resolves or
\* rejects.
SpecLive == Init /\ [][Next]_vars /\ WF_vars(Continue) /\ MapGoesOn /\ WF_vars(Respond)

\* Two invocations of the action on the same form data, one after the other
\* or overlapping.
NextRuns == Next \/ Switch

SpecRuns == InitRuns /\ [][NextRuns]_vars

SpecDiscounts == InitDiscounts /\ [][Next]_vars

\* ------------------------------------------------------------------ claims

\* The productVariantsBulkUpdate mutations issued so far.
variantsCalls == {c \in calls : c.kind = "productVariantsBulkUpdate"}

\* The metafieldsSet mutations issued so far.
metafieldCalls == {c \in calls : c.kind = "metafieldsSet"}

\* The digits of a decimal text, its sign and point left out.
RECURSIVE digitsIn(_)
digitsIn(text) ==
  IF Len(text) = 0 THEN text
  ELSE (IF IsDigit(SubSeq(text, 1, 1)) THEN SubSeq(text, 1, 1) ELSE "") \o digitsIn(Tail(text))

\* The number of cents a decimal text with two fractional digits stands for.
centsOf(text) ==
  IF Ch(text, 1) = "-" THEN 0 - DigitsValue(digitsIn(text)) ELSE DigitsValue(digitsIn(text))

\* C1: in every update entry of every variants mutation the compare-at price
\* is at least the final price, whatever the product attributes, the diamond
\* price table, the weight and the title.
C1_CompareAtLeastFinal ==
  \A c \in variantsCalls : \A k \in 1..Len(c.variants) :
    centsOf(c.variants[k].compareAtPrice) >= centsOf(c.variants[k].price)

\* C2: when the price of the form is missing, not a number or <= 0, the run
\* returns the invalid-price failure and no product is processed: no promise
\* is started, no mutation issued, nothing logged.
C2_InvalidPriceFailsFast ==
  (price.nan \/ (price.inf = 0 /\ price.v <= 0) \/ price.inf < 0)
    => /\ pc \in {"validate", "returned"}
       /\ calls = {} /\ inflight = {} /\ promise = << >> /\ debugLogs = << >>
       /\ pc = "returned"
            => ~outcome.success /\ outcome.message = "Invalid gold price provided."

\* A run over a non-empty batch has returned on a price of 0.
C2_Witness ==
  pc = "returned" /\ formPrice = "0" /\ Len(productData) > 1 /\ ~outcome.success

\* The products with a mutation in flight.
busy == {i \in 1..Len(productData) : \E k \in {"productVariantsBulkUpdate", "metafieldsSet"} :
                                       <<k, i>> \in inflight}

\* The group of product i when the batch is cut into groups of GroupSize.
groupOf(i) == (i - 1) \div GroupSize

\* C3: the products are processed in groups of GroupSize, one group after
\* the other: the products with a mutation in flight all belong to one group,
\* so they are at most GroupSize.
C3_OneGroupInFlight ==
  /\ \A i \in busy : \A j \in busy : groupOf(i) = groupOf(j)
  /\ Cardinality(busy) <= GroupSize

\* Product i is done: its callback has returned or thrown.
settled(i) == i \in DOMAIN promise /\ promise[i].state \in {"fulfilled", "rejected"}

\* C4: when the pipeline of a product throws, the run still processes every
\* other product to completion before it reports, and the validation errors
\* of the other products are in the reported message.
C4_FailureDoesNotAbort ==
  (pc = "returned" /\ all.state = "rejected")
    => /\ \A i \in 1..Len(productData) : settled(i)
       /\ \A i \in DOMAIN promise : \A k \in 1..Len(promise[i].userErrors) :
            includes(outcome.message, promise[i].userErrors[k])

\* The lines of debugLogs that report userErrors of a metafieldsSet mutation.
metafieldErrorLines(logs) == {k \in 1..Len(logs) : logs[k].kind = "metafieldError"}

\* No product has produced an error: no callback has thrown and no mutation
\* has reported userErrors.
NoProductError ==
  /\ \A i \in DOMAIN promise :
       promise[i].state # "rejected" /\ promise[i].userErrors = << >> /\ promise[i].data
  /\ metafieldErrorLines(debugLogs) = {}

\* C5: once every product has completed, the run has reported success if and
\* only if no product produced an error.
C5_SuccessIffNoError ==
  (pc = "returned" /\ ~invalidPrice(price) /\ \A i \in 1..Len(productData) : settled(i))
    => (outcome.success <=> NoProductError)

\* C6: a run that was told of userErrors, by a variants mutation or by a
\* metafieldsSet mutation, before it returned reports failure.
C6_ValidationErrorFailsRun ==
  (pc = "returned" /\ all.state = "fulfilled")
    => ((\/ \E i \in DOMAIN promise : promise[i].userErrors # << >>
         \/ metafieldErrorLines(outcome.debugLogs) # {})
          => ~outcome.success)

\* The messages of the errors that occurred before the run returned: the
\* reasons of the callbacks that threw and the userErrors of the variants
\* mutations.  (The state is the one in which the run returns.)
errorMessages ==
  {promise[i].reason : i \in {j \in DOMAIN promise : promise[j].state = "rejected"}}
    \cup UNION {{promise[i].userErrors[k] : k \in 1..Len(promise[i].userErrors)} :
                  i \in DOMAIN promise}

\* C7: the message of a failed run contains the message of every error that
\* occurred during the run.  Stated on the step that returns: every error
\* message of the state the run returns from is in the message returned.
C7_MessageHasEveryError ==
  [][(pc = "await" /\ pc' = "returned" /\ ~outcome'.success)
       => \A m \in errorMessages : includes(outcome'.message, m)]_vars

\* Product i is the only product that failed, and it failed by userErrors of
\* its variants mutation: nothing was thrown, every response had its data and
\* no other variants mutation reported userErrors.
onlyRejected(i) ==
  /\ promise[i].userErrors # << >>
  /\ \A j \in DOMAIN promise : promise[j].state # "rejected" /\ promise[j].data
  /\ \A j \in DOMAIN promise \ {i} : promise[j].userErrors = << >>

\* The filters of the classification, stated on the title: it contains an
\* allowed color and a karat, in lower case.
qualifiesByTitle(edge) ==
  LET t == toLowerCase(edge.title)
  IN /\ \E c \in {"yellow gold", "rose gold", "white"} : includes(t, c)
     /\ \E k \in {"24k", "22k", "18k", "14k", "9k"} : includes(t, k)

\* C8: when exactly one product's variants mutation is rejected with
\* userErrors (and nothing else fails), the variants mutation of every other
\* product with qualifying variants was issued and has completed, the run
\* reports failure and the message names the rejected product's messages only.
C8_PartialFailure ==
  \A i \in DOMAIN promise :
    (pc = "returned" /\ onlyRejected(i))
      => /\ ~outcome.success
         /\ outcome.message = "Error updating prices: " \o join(variantsUserErrors(i), ", ")
         /\ \A j \in 1..Len(productData) :
              SelectSeq(productData[j].variants, qualifiesByTitle) # << >>
                => /\ \E c \in variantsCalls : c.product = j
                   /\ <<"productVariantsBulkUpdate", j>> \notin inflight
                   /\ settled(j)

\* The second of three products was rejected, the other two updated.
C8_Witness ==
  /\ pc = "returned" /\ Len(promise) = 3 /\ onlyRejected(2)
  /\ \E c \in variantsCalls : c.product = 1
  /\ \E c \in variantsCalls : c.product = 3
  /\ promise[1].state = "fulfilled" /\ promise[3].state = "fulfilled"

\* The ids of a sequence of edges or of update entries.
idsOf(xs) == [k \in 1..Len(xs) |-> xs[k].id]

\* C9: the variants mutation of a product carries one entry per variant whose
\* lower-cased title contains an allowed color and a karat, with the id of
\* that variant, in the order of the product's variants, and nothing else; a
\* product without such a variant issues no variants mutation, and no other
\* step issues one.
C9_EntriesAreQualifyingVariants ==
  [][IF pc = "map" /\ next' = next + 1
       THEN LET q == SelectSeq(productData[next].variants, qualifiesByTitle)
            IN IF q = << >> THEN calls' = calls
               ELSE \E c \in calls' :
                      /\ calls' \ calls = {c}
                      /\ c.kind = "productVariantsBulkUpdate" /\ c.product = next
                      /\ idsOf(c.variants) = idsOf(q)
       ELSE variantsCalls' = variantsCalls]_vars

\* A product whose first variant does not qualify and whose second does has
\* issued a mutation with the second variant alone.
C9_Witness ==
  \E c \in variantsCalls :
    /\ ~qualifiesByTitle(productData[c.product].variants[1])
    /\ idsOf(c.variants) = <<productData[c.product].variants[2].id>>

\* The multiplier of a karat in 200ths.
multiplierOfKarat(k) ==
  IF k = "24k" THEN 200 ELSE IF k = "22k" THEN 185 ELSE IF k = "18k" THEN 152
  ELSE IF k = "14k" THEN 120 ELSE 77

\* goldAndMaking of a qualifying edge as the claim states it.
goldAndMakingOf(edge) ==
  LET weight == getNumericMetafieldValue(edge.metafields, "weight")
  IN Add(Mul(Times(price, multiplierOfKarat(priceMap[karatKey(edge.title)].k)), weight),
         IF Positive(weight) THEN Times(Mul(makingCharges, weight), 200) ELSE Num(0))

\* C10: every entry of the variants mutation a product issues carries
\* compareAtPrice = goldAndMaking + totalDiamondPrice and price = goldAndMaking
\* + discountedDiamondCost, each rounded to cents, goldAndMaking being price *
\* multiplier * weight plus the making charge of a positive weight.
C10_PriceComposition ==
  [][(pc = "map" /\ next' = next + 1)
       => LET q == SelectSeq(productData[next].variants, qualifiesByTitle)
              total == totalDiamondPriceOf(productData[next], diamondPrices)
          IN \A c \in calls' \ calls : \A k \in 1..Len(c.variants) :
               /\ c.variants[k].compareAtPrice = toFixed(Add(goldAndMakingOf(q[k]), total))
               /\ c.variants[k].price =
                    toFixed(Add(goldAndMakingOf(q[k]),
                                discountedDiamondCostOf(total, discountFactorOf(q[k].title))))]_vars

\* The example of the specification: base 8000, making 1200, 18k, weight 5,
\* diamonds 30000 and a 10% tag give 63400.00 and 66400.00.
C10_Witness ==
  /\ formPrice = "8000" /\ formMaking = "1200"
  /\ \E c \in variantsCalls :
       /\ productData[c.product].variants[1].title = "18k Yellow Gold / 10%"
       /\ getNumericMetafieldValue(productData[c.product].variants[1].metafields, "weight")
            = Num(50)
       /\ totalDiamondPriceOf(productData[c.product], diamondPrices) = Num(30000 * 20000)
       /\ c.variants[1].price = "63400.00"
       /\ c.variants[1].compareAtPrice = "66400.00"

\* The lines the step adds to debugLogs.
newLines == SubSeq(debugLogs', Len(debugLogs) + 1, Len(debugLogs'))

\* title[i..j] is an integer, optional white space and a percent sign.
isDiscountToken(title, i, j) ==
  /\ Ch(title, j) = "%"
  /\ \E m \in i..(j - 1) :
       /\ \A n \in i..m : IsDigit(Ch(title, n))
       /\ \A n \in (m + 1)..(j - 1) : IsSpace(Ch(title, n))

\* The places of the tokens of a title.
discountTokens(title) ==
  {t \in {i \in 1..Len(title) : IsDigit(Ch(title, i))}
           \X {j \in 1..Len(title) : Ch(title, j) = "%"} :
     t[1] < t[2] /\ isDiscountToken(title, t[1], t[2])}

\* The characters of the token that starts first, its white space taken out;
\* none without a token.
firstToken(title) ==
  LET tokens == discountTokens(title)
  IN IF tokens = {} THEN << >>
     ELSE LET t == CHOOSE u \in tokens : \A w \in tokens : u[1] <= w[1]
          IN SelectSeq([n \in 1..(t[2] - t[1] + 1) |-> Ch(title, t[1] + n - 1)],
                       LAMBDA c : ~IsSpace(c))

\* The characters of a sequence of one-character strings, as a string.
RECURSIVE textOf(_)
textOf(cs) == IF Len(cs) = 0 THEN "" ELSE cs[1] \o textOf(Tail(cs))

\* The discounted gem cost the claim gives for a title and a total gem cost.
discountedGemCostOf(title, total) ==
  LET token == textOf(firstToken(title))
  IN IF token \in {"10%", "12%", "15%"} /\ ~total.nan /\ total.inf = 0
       THEN Num((total.v \div 100) * discountMap(token))
       ELSE total

\* C11: the variant line of every qualifying variant shows, as the diamond
\* cost, the total diamond price of the product times the factor of the first
\* token "<integer> <optional white space> %" of the title when that token,
\* its white space stripped, is a key of discountMap, and the total diamond
\* price itself when the title has no token or the token is no key.
C11_DiscountDetection ==
  [][(pc = "map" /\ next' = next + 1)
       => \A k \in 1..Len(newLines) :
            newLines[k].kind = "variant"
              => newLines[k].diamond =
                   toFixed(discountedGemCostOf(newLines[k].title,
                             totalDiamondPriceOf(productData[next], diamondPrices)))]_vars

\* A title with white space inside its token got the factor of 12% on a
\* positive diamond total.
C11_Witness ==
  /\ Positive(totalDiamondPriceOf(productData[1], diamondPrices))
  /\ \E k \in 1..Len(debugLogs) :
       /\ debugLogs[k].kind = "variant"
       /\ debugLogs[k].title = "14K Rose Gold 12 %"
       /\ debugLogs[k].discount = 88
       /\ debugLogs[k].diamond # toFixed(totalDiamondPriceOf(productData[1], diamondPrices))

\* The gem cost of slot n of a product as the claim gives it: nothing when
\* the trimmed type is missing or empty, the unit price times the weight when
\* the type is in the table, and 0 when it is not.
gemCostOfSlot(product, prices, n) ==
  LET type == getMetafieldValue(product.metafields, "diamond_" \o n)
      weight == getNumericMetafieldValue(product.metafields, "diamond_weight_" \o n)
  IN IF type = NULL \/ trim(type) = "" THEN Num(0)
     ELSE IF trim(type) \in DOMAIN prices
       THEN Times(Mul(Num(prices[trim(type)]), weight), 2000)
     ELSE Num(0)

\* C12: the total diamond price of a product, as its product line shows it,
\* is the sum over the slots 1..3 with a non-empty trimmed type of the unit
\* price of the type times the weight, a type the table does not have
\* contributing exactly 0.
C12_TotalGemCost ==
  [][(pc = "map" /\ next' = next + 1)
       => \A k \in 1..Len(newLines) :
            newLines[k].kind = "product"
              => newLines[k].total =
                   Add(Add(gemCostOfSlot(productData[next], diamondPrices, "1"),
                           gemCostOfSlot(productData[next], diamondPrices, "2")),
                       gemCostOfSlot(productData[next], diamondPrices, "3"))]_vars

\* The stored values that hold no number: empty, structured text with a
\* non-numeric or null value or without a value field, malformed structured
\* text, an array, and non-numeric text.
UnparsableValues ==
  {"", "{\"value\": \"abc\"}", "{\"value\": null}", "{\"unit\": \"GRAMS\"}",
   "{\"value\": 5", "[7]", "N/A", "abc"}

\* The value stored for the key in the custom namespace holds no number, or
\* no value is stored.
cannotBeParsed(metafields, key) ==
  LET stored == {n \in 1..Len(metafields) :
                   metafields[n].namespace = "custom" /\ metafields[n].key = key}
  IN \/ stored = {}
     \/ metafields[CHOOSE n \in stored : \A o \in stored : n <= o].value \in UnparsableValues

\* The first variant of the product the step maps.
firstVariant == productData[next].variants[1]

\* C13: resolving the weight of a variant never raises and gives a number,
\* and gives 0 when no value is stored or the stored value holds no number:
\* the callback does not throw, and the weight of the variant line is not NaN
\* and is 0 in those cases.
C13_NumericNeverRaises ==
  [][(pc = "map" /\ next' = next + 1)
       => /\ promise'[next].state # "rejected"
          /\ \A k \in 1..Len(newLines) :
               (newLines[k].kind = "variant" /\ newLines[k].title = firstVariant.title)
                 => /\ ~newLines[k].weight.nan
                    /\ cannotBeParsed(firstVariant.metafields, "weight")
                         => newLines[k].weight = Num(0)]_vars

\* A variant whose weight is malformed structured text was priced with the
\* weight 0, and its callback went on to issue the mutation.
C13_Witness ==
  /\ Len(promise) = 1 /\ promise[1].state # "rejected"
  /\ productData[1].variants[1].metafields = << mf("weight", "{\"value\": 5") >>
  /\ \E k \in 1..Len(debugLogs) :
       debugLogs[k].kind = "variant" /\ debugLogs[k].weight = Num(0)
  /\ variantsCalls # {}

\* text is a decimal with exactly two fractional digits: an optional minus
\* sign, one digit or more, a point and two digits.
isMoneyText(text) ==
  LET first == IF Ch(text, 1) = "-" THEN 2 ELSE 1
  IN /\ Len(text) >= first + 3
     /\ Ch(text, Len(text) - 2) = "."
     /\ \A n \in first..Len(text) : n # Len(text) - 2 => IsDigit(Ch(text, n))

\* text is the amount a (in 1/20000) rounded to 2 decimal places.
isRounded(text, a) ==
  /\ isMoneyText(text)
  /\ ~a.nan /\ a.inf = 0
  /\ 200 * centsOf(text) - a.v \in (0 - 100)..100

\* C14: the price and the compareAtPrice of every entry of the variants
\* mutation a product issues are decimal texts with exactly two fractional
\* digits, equal to the computed amounts rounded to 2 decimal places.
C14_TwoDecimals ==
  [][(pc = "map" /\ next' = next + 1)
       => LET q == SelectSeq(productData[next].variants, qualifiesByTitle)
              total == totalDiamondPriceOf(productData[next], diamondPrices)
          IN \A c \in calls' \ calls : \A k \in 1..Len(c.variants) :
               /\ isRounded(c.variants[k].compareAtPrice, Add(goldAndMakingOf(q[k]), total))
               /\ isRounded(c.variants[k].price,
                            Add(goldAndMakingOf(q[k]),
                                discountedDiamondCostOf(total, discountFactorOf(q[k].title))))]_vars

\* Product i has no qualifying variant.
noQualifying(i) == SelectSeq(productData[i].variants, qualifiesByTitle) = << >>

\* The promise of a callback that returned null.
returnedNull == [Pending EXCEPT !.state = "fulfilled", !.reason = "null"]

\* C15: a product without qualifying variant issues no mutation and has no
\* error.  The step that maps it issues no call and leaves its callback
\* returned with null, which no later step changes and for which no later
\* step issues a call; and the step that returns a failure returns a message
\* without the id of such a product, for an error of a product that has
\* qualifying variants.
C15_NoQualifyingNoError ==
  [][/\ (pc = "map" /\ next' = next + 1 /\ noQualifying(next))
          => calls' = calls /\ promise'[next] = returnedNull
     /\ \A i \in DOMAIN promise :
          promise[i] = returnedNull
            => promise'[i] = returnedNull /\ \A c \in calls' \ calls : c.product # i
     /\ (pc = "await" /\ pc' = "returned" /\ ~outcome'.success)
          => /\ \A i \in DOMAIN promise :
                  noQualifying(i) => ~includes(outcome'.message, productData[i].id)
             /\ \E j \in DOMAIN promise :
                  /\ ~noQualifying(j)
                  /\ \/ promise[j].state = "rejected"
                     \/ promise[j].userErrors # << >>
                     \/ ~promise[j].data]_vars

\* A run of three products has returned a failure for the first product, the
\* second having no qualifying variant and no call.
C15_Witness ==
  /\ pc = "returned" /\ Len(promise) = 3
  /\ noQualifying(2) /\ ~noQualifying(1) /\ ~noQualifying(3)
  /\ ~outcome.success /\ promise[1].userErrors # << >>
  /\ \A c \in calls : c.product # 2

\* The purity tags in the order the table declares them.
purityTags == <<"24k", "22k", "18k", "14k", "9k">>

\* The first tag, in the order of the table, that the lower-cased title
\* contains.
firstPurityTag(title) ==
  LET t == toLowerCase(title)
  IN purityTags[CHOOSE i \in 1..Len(purityTags) :
                  /\ includes(t, purityTags[i])
                  /\ \A j \in 1..(i - 1) : ~includes(t, purityTags[j])]

\* The variant of the product the step maps that has the title.
variantTitled(title) ==
  productData[next].variants[CHOOSE n \in 1..Len(productData[next].variants) :
                               productData[next].variants[n].title = title]

\* goldAndMaking of an edge with the multiplier of a tag.
goldAndMakingWith(edge, tag) ==
  LET weight == getNumericMetafieldValue(edge.metafields, "weight")
  IN Add(Mul(Times(price, multiplierOfKarat(tag)), weight),
         IF Positive(weight) THEN Times(Mul(makingCharges, weight), 200) ELSE Num(0))

\* C16: the gold and making cost on the variant line of every qualifying
\* variant is computed with the multiplier of the first tag, in the order of
\* the table (24k, 22k, 18k, 14k, 9k), that its lower-cased title contains,
\* wherever the tags stand in the title.
C16_FirstTagInTableOrder ==
  [][(pc = "map" /\ next' = next + 1)
       => \A k \in 1..Len(newLines) :
            newLines[k].kind = "variant"
              => newLines[k].goldMaking =
                   toFixed(goldAndMakingWith(variantTitled(newLines[k].title),
                                             firstPurityTag(newLines[k].title)))]_vars

\* The variant titled "14k 18k white 5 15%" of weight 5 was priced at 8000
\* and 1200 with the multiplier of 18k: 8000 * 0.76 * 5 + 1200 * 5.
C16_Witness ==
  /\ formPrice = "8000" /\ formMaking = "1200"
  /\ \E k \in 1..Len(debugLogs) :
       /\ debugLogs[k].kind = "variant"
       /\ debugLogs[k].title = "14k 18k white 5 15%"
       /\ debugLogs[k].weight = Num(50)
       /\ debugLogs[k].goldMaking = "36400.00"

\* The update entry, among the calls the step issues, of the variant with the
\* id; the set is empty when the step issues none.
newEntriesOf(id) ==
  {e \in UNION {{c.variants[k] : k \in 1..Len(c.variants)} : c \in calls' \ calls} : e.id = id}

\* C17: a qualifying variant whose weight is 0, missing or unparsable still
\* gets an update entry; its gold and making cost is 0, so its price is the
\* discounted diamond cost and its compareAtPrice the total diamond price, and
\* its variant line carries the warning.
C17_ZeroWeight ==
  [][(pc = "map" /\ next' = next + 1)
       => \A n \in 1..Len(productData[next].variants) :
            LET edge == productData[next].variants[n]
                total == totalDiamondPriceOf(productData[next], diamondPrices)
            IN (qualifiesByTitle(edge)
                  /\ getNumericMetafieldValue(edge.metafields, "weight") = Num(0))
                 => /\ \E k \in 1..Len(newLines) :
                         /\ newLines[k].kind = "variant" /\ newLines[k].title = edge.title
                         /\ newLines[k].warning
                         /\ newLines[k].goldMaking = "0.00"
                    /\ \E e \in newEntriesOf(edge.id) :
                         /\ e.compareAtPrice = toFixed(total)
                         /\ e.price =
                              toFixed(discountedGemCostOf(edge.title, total))]_vars

\* A value is stored for the key in the custom namespace and holds no number.
storedUnparsable(metafields, key) ==
  LET stored == {n \in 1..Len(metafields) :
                   metafields[n].namespace = "custom" /\ metafields[n].key = key}
  IN /\ stored # {}
     /\ metafields[CHOOSE n \in stored : \A o \in stored : n <= o].value \in UnparsableValues

\* The attribute values of a product that the run reads and cannot parse: the
\* weights of its diamond slots and the weights of its qualifying variants.
unparsableReads(product) ==
  {<<"slot", n>> : n \in {m \in {"1", "2", "3"} :
                           storedUnparsable(product.metafields, "diamond_weight_" \o m)}}
    \cup {<<"variant", n>> : n \in {m \in 1..Len(product.variants) :
                                     /\ qualifiesByTitle(product.variants[m])
                                     /\ storedUnparsable(product.variants[m].metafields,
                                                         "weight")}}

\* C18: every attribute value that cannot be parsed and is taken as 0 is
\* recorded in the trace: the step that maps a product adds at least one
\* warning line for each such value of the product.
C18_UnparsableIsLogged ==
  [][(pc = "map" /\ next' = next + 1)
       => Cardinality({k \in 1..Len(newLines) : newLines[k].warning})
            >= Cardinality(unparsableReads(productData[next]))]_vars

\* C19: every variant skipped as non-qualifying is recorded in the trace by
\* a line that names its product: the step that maps a product with such a
\* variant adds a line about unrecognized variants with the title of the
\* product, also when other variants of the product qualify.
C19_SkippedIsLogged ==
  [][(pc = "map" /\ next' = next + 1 /\ promise'[next].state # "rejected")
       => ((\E n \in 1..Len(productData[next].variants) :
              ~qualifiesByTitle(productData[next].variants[n]))
             => \E k \in 1..Len(newLines) :
                  /\ newLines[k].kind = "norecognized"
                  /\ newLines[k].product = productData[next].title)]_vars

\* How many of the first n variants of a product get a variant line: the
\* qualifying ones, up to the first of them that cannot be read.
RECURSIVE linesBefore(_, _)
linesBefore(variants, n) ==
  IF n > Len(variants) THEN 0
  ELSE IF ~qualifiesByTitle(variants[n]) THEN linesBefore(variants, n + 1)
  ELSE IF "metafields" \notin DOMAIN variants[n] THEN 0
  ELSE 1 + linesBefore(variants, n + 1)

\* The sum of f over 1..n.
RECURSIVE sumTo(_, _)
sumTo(f, n) == IF n = 0 THEN 0 ELSE f[n] + sumTo(f, n - 1)

\* C20: a failed run returns the trace collected so far, which holds the
\* derivation lines of every product attempted, failed ones included up to
\* their point of failure: the failure returned after the map carries all of
\* debugLogs, with the product line of every product of the batch and one
\* variant line for every qualifying variant that was priced.
C20_FailedRunReturnsTrace ==
  [][(pc = "await" /\ pc' = "returned" /\ ~outcome'.success)
       => /\ outcome'.debugLogs = debugLogs'
          /\ \A i \in 1..Len(productData) :
               \E k \in 1..Len(outcome'.debugLogs) :
                 /\ outcome'.debugLogs[k].kind = "product"
                 /\ outcome'.debugLogs[k].product = productData[i].title
          /\ Cardinality({k \in 1..Len(outcome'.debugLogs) :
                            outcome'.debugLogs[k].kind = "variant"})
               = sumTo([i \in 1..Len(productData) |-> linesBefore(productData[i].variants, 1)],
                       Len(productData))]_vars

\* A run of two products has failed on the exception of the first, and the
\* trace it returned has the product lines of both and the variant line of
\* the second.
C20_Witness ==
  /\ pc = "returned" /\ ~outcome.success /\ Len(promise) = 2
  /\ promise[1].state = "rejected" /\ promise[1].reason = ReadEdges
  /\ \E k \in 1..Len(outcome.debugLogs) :
       outcome.debugLogs[k].kind = "product"
         /\ outcome.debugLogs[k].product = productData[2].title
  /\ \E k \in 1..Len(outcome.debugLogs) :
       outcome.debugLogs[k].kind = "variant"
         /\ outcome.debugLogs[k].title = productData[2].variants[1].title

\* The places of the records of the custom namespace with the key.
customRecords(attributes, key) ==
  {n \in 1..Len(attributes) : attributes[n].key = key /\ attributes[n].namespace = "custom"}

\* The value of the first of these records in list order, null without any.
firstCustomValue(attributes, key) ==
  IF customRecords(attributes, key) = {} THEN NULL
  ELSE attributes[CHOOSE n \in customRecords(attributes, key) :
                    \A o \in customRecords(attributes, key) : n <= o].value

\* The keys the run resolves.
ResolvedKeys ==
  {"weight", "diamond_1", "diamond_2", "diamond_3",
   "diamond_weight_1", "diamond_weight_2", "diamond_weight_3"}

\* C21: resolving a key in a list of attributes gives the value of the first
\* record, in list order, with that key and the custom namespace, and null
\* when there is none; a record of another namespace is never the one
\* returned.  On the step that maps a product: for its attribute list and the
\* list of its first variant and every key the run resolves, and the weight on
\* the line of the first variant is the number read from the value so found.
C21_ResolveFirstCustom ==
  [][(pc = "map" /\ next' = next + 1)
       => /\ \A key \in ResolvedKeys :
               /\ getMetafieldValue(productData[next].metafields, key)
                    = firstCustomValue(productData[next].metafields, key)
               /\ getMetafieldValue(firstVariant.metafields, key)
                    = firstCustomValue(firstVariant.metafields, key)
          /\ \A k \in 1..Len(newLines) :
               (newLines[k].kind = "variant" /\ newLines[k].title = firstVariant.title)
                 => newLines[k].weight
                      = numericOf(firstCustomValue(firstVariant.metafields, "weight"))]_vars

\* A variant that stores the weight 4 in another namespace before the weight
\* 3 in the custom one was priced with the weight 3.
C21_Witness ==
  /\ Len(promise) = 1
  /\ productData[1].variants[1].metafields
       = << [namespace |-> "global", key |-> "weight", value |-> "4"], mf("weight", "3") >>
  /\ \E k \in 1..Len(debugLogs) :
       debugLogs[k].kind = "variant" /\ debugLogs[k].weight = Num(30)

\* The text of a member of a decoded object as parseFloat converts it: the
\* characters of a string or a number, and a word for null, true and false.
memberText(member) == IF member.kind \in {"string", "number"} THEN member.text ELSE NULL

\* The number a stored value stands for in either encoding, as the claim gives
\* it: 0 for no value or an empty one; the value field of the decoded object
\* when the trimmed text starts with { or [ and decodes to an object that has
\* one; the raw text otherwise; a text that holds no number reading as 0.
numberOfEncoded(val) ==
  IF val = NULL \/ val = "" THEN Num(0)
  ELSE LET trimmed == trim(val)
           decoded == JSONparse(trimmed)
       IN IF Ch(trimmed, 1) \in {"{", "["} /\ ~decoded.throws
               /\ "value" \in DOMAIN decoded.members
            THEN OrZero(parseFloat(memberText(decoded.members["value"])))
            ELSE OrZero(parseFloat(val))

\* The numbers, in tenths, of stored values in both encodings.
EncodedExamples ==
  [v \in {"5"} |-> Num(50)]
    @@ [v \in {" 2.5 "} |-> Num(25)]
    @@ [v \in {"{\"value\": 3.5, \"unit\": \"GRAMS\"}",
               "{\"unit\": \"KILOGRAMS\", \"value\": 3.5}"} |-> Num(35)]
    @@ [v \in {"{\"value\": \"4\"}"} |-> Num(40)]
    @@ [v \in {" {\"value\": 2} "} |-> Num(20)]
    @@ [v \in {"3abc"} |-> Num(30)]
    @@ [v \in {"-2"} |-> Num(0 - 20)]
    @@ [v \in {"Infinity"} |-> Infinity(1)]
    @@ [v \in {"{\"value\": \"abc\"}", "{\"value\": null}", "{\"unit\": \"GRAMS\"}",
               "{\"value\": 5", "[7]", "N/A", "abc", "0", ""} |-> Num(0)]

\* C22: the weight of a variant is read from either encoding: from the value
\* field when the trimmed stored text starts with { or [ and decodes to an
\* object that has one, whatever its unit, and from the raw text in every
\* other case (plain text, text that fails to decode, a decoded value without
\* a value field).  On the step that maps a product, the weight on the line
\* of its first variant is that number, and the number of the examples.
C22_BothEncodings ==
  [][(pc = "map" /\ next' = next + 1)
       => \A k \in 1..Len(newLines) :
            (newLines[k].kind = "variant" /\ newLines[k].title = firstVariant.title)
              => LET val == firstCustomValue(firstVariant.metafields, "weight")
                 IN /\ newLines[k].weight = numberOfEncoded(val)
                    /\ val \in DOMAIN EncodedExamples
                         => newLines[k].weight = EncodedExamples[val]]_vars

\* A variant whose weight is structured text with the unit before the value
\* was priced with the weight 3.5.
C22_Witness ==
  /\ Len(promise) = 1
  /\ productData[1].variants[1].metafields
       = << mf("weight", "{\"unit\": \"KILOGRAMS\", \"value\": 3.5}") >>
  /\ \E k \in 1..Len(debugLogs) :
       debugLogs[k].kind = "variant" /\ debugLogs[k].weight = Num(35)

\* The locals of the invocation that has the control, as a record.
thisRun ==
  [pc |-> pc, next |-> next, promise |-> promise, all |-> all, debugLogs |-> debugLogs,
   calls |-> calls, inflight |-> inflight, outcome |-> outcome]

\* The trace lines of the pricing: gem total, variant, no recognized variants.
isPricingLine(line) == line.kind \in {"product", "variant", "norecognized"}

\* The pricing lines of one run over the batch, from product i on.
RECURSIVE pricingTrace(_)
pricingTrace(i) ==
  IF i > Len(productData) THEN << >>
  ELSE syncPart(productData[i], diamondPrices, price, makingCharges).logs
         \o pricingTrace(i + 1)

\* How many lines of a trace are of the kind and about the product.
linesAbout(logs, kind, product) ==
  Cardinality({k \in 1..Len(logs) : logs[k].kind = kind /\ logs[k].product = product})

\* The outcome an invocation r returned is made of its own run alone: the
\* pricing lines of its trace are those of one run over the batch, it has a
\* line about userErrors of an attribute write for a product at most once and
\* only when the callback of r for that product has returned, an update
\* error line only when the Promise.all of r rejected, and its message is the
\* success message, the reason of a callback of r that threw, or the
\* userErrors of the responses r received.
ownOutcome(r) ==
  r.pc = "returned"
    => /\ SelectSeq(r.outcome.debugLogs, isPricingLine) = pricingTrace(1)
       /\ \A i \in 1..Len(productData) :
            linesAbout(r.outcome.debugLogs, "metafieldError", productData[i].title)
              <= (IF i \in DOMAIN r.promise /\ r.promise[i].state = "fulfilled"
                       /\ r.promise[i].reason # "null" THEN 1 ELSE 0)
       /\ linesAbout(r.outcome.debugLogs, "updateError", "")
            = (IF r.all.state = "rejected"
                    \/ \E i \in DOMAIN r.promise : ~r.promise[i].data THEN 1 ELSE 0)
       /\ r.outcome.message
            \in {"Product prices updated successfully",
                 "Error updating prices: " \o join(flatUserErrors(r.promise), ", "),
                 ReadData("productVariantsBulkUpdate")}
                  \cup {r.promise[i].reason :
                          i \in {j \in DOMAIN r.promise : r.promise[j].state = "rejected"}}

C24_NoCallInFlightAtReturn == pc = "returned" => inflight = {}

\* What a trace line is about: its kind, and the title of the variant (a
\* variant line) or of the product.
lineShape(line) == <<line.kind, IF line.kind = "variant" THEN line.title ELSE line.product>>

shapesOf(lines) == [k \in 1..Len(lines) |-> lineShape(lines[k])]

variantShapes(edges) == [k \in 1..Len(edges) |-> <<"variant", edges[k].title>>]

\* The block of a product as the claim gives it: the gem-total line, then one
\* line per qualifying variant in variant order, or the line about no
\* recognized variants.
blockOf(product) ==
  LET q == SelectSeq(product.variants, qualifiesByTitle)
  IN <<<<"product", product.title>>>>
       \o (IF q = << >> THEN <<<<"norecognized", product.title>>>> ELSE variantShapes(q))

\* The qualifying variants of a product that are priced: those before the
\* first one whose attributes cannot be read.
RECURSIVE pricedOf(_)
pricedOf(q) ==
  IF Len(q) = 0 \/ "metafields" \notin DOMAIN q[1] THEN << >>
  ELSE <<q[1]>> \o pricedOf(Tail(q))

\* The block of a product whose pricing may throw: nothing when the
\* attributes of the product cannot be read; else the gem-total line and the
\* lines of the qualifying variants priced, or the line about no recognized
\* variants when no variant qualifies.
blockUpToFailure(product) ==
  LET q == SelectSeq(product.variants, qualifiesByTitle)
  IN IF "metafields" \notin DOMAIN product THEN << >>
     ELSE <<<<"product", product.title>>>>
            \o (IF q = << >> THEN <<<<"norecognized", product.title>>>>
                ELSE variantShapes(pricedOf(q)))

\* The blocks of the products of the batch from i on, one after the other.
RECURSIVE blocksFrom(_, _)
blocksFrom(block(_), i) ==
  IF i > Len(productData) THEN << >>
  ELSE block(productData[i]) \o blocksFrom(block, i + 1)

\* The step keeps the lines of the trace where they are and adds no pricing
\* line.
keepsPricingLines ==
  /\ Len(debugLogs') >= Len(debugLogs)
  /\ SubSeq(debugLogs', 1, Len(debugLogs)) = debugLogs
  /\ \A k \in 1..Len(newLines) : ~isPricingLine(newLines[k])

\* C25 as stated: the trace holds one block per product, in the order of the
\* input products and not interleaved, whatever the order in which the
\* mutations complete: the gem-total line, immediately followed by one line
\* per qualifying variant in variant order or by the line about no recognized
\* variants.  When the last product is mapped the trace is these blocks, and
\* no later step moves a line or adds a pricing line.
C25_BlocksPerProduct ==
  [][/\ (pc = "map" /\ pc' = "await") => shapesOf(debugLogs) = blocksFrom(blockOf, 1)
     /\ pc \in {"await", "returned"} => keepsPricingLines]_vars

\* C25 as amended: the same, the block of a product whose pricing throws
\* ending with the line of the last variant priced before.
C25_BlocksUpToFailure ==
  [][/\ (pc = "map" /\ pc' = "await")
          => shapesOf(debugLogs) = blocksFrom(blockUpToFailure, 1)
     /\ pc \in {"await", "returned"} => keepsPricingLines]_vars

\* The line of debugLogs that reports userErrors of the attribute write of
\* product i is at place k.
writeErrorAt(k, i) ==
  /\ k \in 1..Len(debugLogs)
  /\ debugLogs[k].kind = "metafieldError"
  /\ debugLogs[k].product = productData[i].title

\* A run over three products has returned; the attribute write of the third
\* product completed before that of the first, and the trace begins with the
\* gem-total line of the first product.
C25_Witness ==
  /\ pc = "returned" /\ Len(promise) = 3
  /\ \E k \in 1..Len(debugLogs) : \E l \in 1..Len(debugLogs) :
       k < l /\ writeErrorAt(k, 3) /\ writeErrorAt(l, 1)
  /\ lineShape(debugLogs[1]) = <<"product", productData[1].title>>

\* The attribute writes of product i among a set of mutations.
writesOf(cs, i) == {c \in cs : c.kind = "metafieldsSet" /\ c.product = i}

\* The step ends the variants mutation of product i.
variantsEnds(i) ==
  /\ <<"productVariantsBulkUpdate", i>> \in inflight
  /\ <<"productVariantsBulkUpdate", i>> \notin inflight'

\* C26: for every product the attribute write of the gem total is issued at
\* most once; a step issues it only as the variants mutation of the product
\* resolves, so never for a product without qualifying variant (which has no
\* variants mutation) and never when the variants mutation threw; and every
\* step on which the variants mutation resolves issues it, with userErrors
\* or without.
C26_AttributeWriteOnce ==
  [][\A i \in 1..Len(productData) :
       /\ Cardinality(writesOf(calls', i)) <= 1
       /\ writesOf(calls', i) # writesOf(calls, i)
            => /\ variantsEnds(i)
               /\ promise'[i].state # "rejected"
               /\ ~noQualifying(i)
       /\ (variantsEnds(i) /\ promise'[i].state = "rejected")
            => writesOf(calls', i) = {}
       /\ (variantsEnds(i) /\ promise'[i].state # "rejected")
            => /\ writesOf(calls', i) # {}
               /\ <<"metafieldsSet", i>> \in inflight']_vars

\* The variants mutation of the first product reported userErrors and its
\* attribute write was issued; the variants mutation of the second product
\* threw and it has no attribute write.
C26_Witness ==
  /\ Len(promise) >= 2
  /\ promise[1].userErrors # << >> /\ writesOf(calls, 1) # {}
  /\ promise[2].state = "rejected" /\ promise[2].reason = variantsFailure(2)
  /\ writesOf(calls, 2) = {}

\* An outcome object: a boolean success, a message and a trace.
isOutcome(o) ==
  /\ DOMAIN o = {"success", "message", "debugLogs"}
  /\ o.success \in BOOLEAN
  /\ o.message # ""
  /\ DOMAIN o.debugLogs = 1..Len(o.debugLogs)

\* Something failed in the run before it returned: a callback threw, or a
\* result the aggregation reads has no data.
failedInside ==
  \/ \E i \in DOMAIN promise : promise[i].state = "rejected"
  \/ \E i \in DOMAIN promise : promise[i].state = "fulfilled" /\ ~promise[i].data

\* C27: when every mutation issued eventually resolves or rejects, the action
\* terminates: it returns, once, an outcome object with a boolean success, a
\* message and a trace, and a failure inside the pipeline of a product or in
\* the aggregation of the results is caught and returned as a failure, not
\* thrown.
C27_AlwaysReturnsOutcome ==
  /\ <>(pc = "returned")
  /\ [][pc = "returned" => (pc' = "returned" /\ outcome' = outcome)]_vars
  /\ [][(pc # "returned" /\ pc' = "returned")
         => /\ isOutcome(outcome')
            /\ failedInside => ~outcome'.success]_vars

\* A run has returned the failure of the aggregation: every callback returned
\* and a response had no data.
C27_Witness ==
  /\ pc = "returned" /\ Len(promise) >= 2
  /\ \A i \in DOMAIN promise : promise[i].state = "fulfilled"
  /\ \E i \in DOMAIN promise : ~promise[i].data
  /\ ~outcome.success
  /\ outcome.message = ReadData("productVariantsBulkUpdate")

\* The percent signs of a title that end a token.
tokenEnds(title) == {t[2] : t \in discountTokens(title)}

\* The factor discountMap gives the leftmost token of a title, 0 when it
\* gives none.
leftmostFactor(title) ==
  LET token == textOf(firstToken(title))
  IN IF token \in {"10%", "12%", "15%"} THEN discountMap(token) ELSE 0

\* C28: of a variant title with several integer-percent tokens only the
\* leftmost is looked up: the variant line shows the factor of that token
\* applied once to the total diamond price, and when discountMap has no factor
\* for it the line shows no discount, the full diamond price, and a final
\* price equal to the compare-at price, whatever the later tokens are.
C28_LeftmostTokenOnly ==
  [][(pc = "map" /\ next' = next + 1)
       => \A k \in 1..Len(newLines) :
            (newLines[k].kind = "variant" /\ Cardinality(tokenEnds(newLines[k].title)) >= 2)
              => LET total == totalDiamondPriceOf(productData[next], diamondPrices)
                     f == leftmostFactor(newLines[k].title)
                 IN /\ newLines[k].discount = f
                    /\ f = 0 => /\ newLines[k].diamond = toFixed(total)
                                /\ newLines[k].final = newLines[k].compareAt
                    /\ f # 0 => /\ newLines[k].diamond = toFixed(Num((total.v \div 100) * f))
                                /\ newLines[k].final # newLines[k].compareAt]_vars

\* A variant whose title has an unconfigured token before a configured one
\* was priced with the full diamond price, and one whose title has two
\* configured tokens with the factor of the first.
C28_Witness ==
  /\ Positive(totalDiamondPriceOf(productData[1], diamondPrices))
  /\ \E k \in 1..Len(debugLogs) :
       /\ debugLogs[k].kind = "variant"
       /\ debugLogs[k].title \in {"18k white 20% 10%", "18k white 10% 15%"}
       /\ debugLogs[k].discount = leftmostFactor(debugLogs[k].title)
       /\ debugLogs[k].discount = 0 <=> debugLogs[k].final = debugLogs[k].compareAt
  /\ \E k \in 1..Len(debugLogs) :
       /\ debugLogs[k].title = "24k White 25% 15%"
       /\ debugLogs[k].discount = 0
       /\ debugLogs[k].diamond = toFixed(totalDiamondPriceOf(productData[1], diamondPrices))

====
